---- MODULE Spec2Model ----
(***************************************************************************)
(* Symbol graph of the language server: the symbol tree (parent/children), *)
(* the dependency/dependent weak sets, invalidate, unload, remove_symbol   *)
(* and the evaluation walk follow_ref, translated from                     *)
(* server/src/core/symbols/symbol.rs.                                      *)
(***************************************************************************)
EXTENDS Integers, Sequences, FiniteSets, TLC

\* ------------------------------------------------------------------ bounds
\* number of add_dependency calls explored in one behaviour
MaxDeps == 1
\* number of add_dependency calls made on the built tree
MaxDepCalls == MaxDeps + 1
\* number of evaluations in the evaluation graph of the follow_ref runs
MaxEvals == 3
\* length of the follow_ref working list after which a run is cut
MaxResults == 4
\* a file change is taken up while fewer symbols than this await a re-run
MaxPending == 2
\* number of segments of the paths that are looked up
MaxPath == 3

\* ------------------------------------------------------- program constants
\* BuildSteps, used as array indexes (`step as usize`)
SYNTAX == -1
ARCH == 0
ARCH_EVAL == 1
ODOO == 2
VALIDATION == 3
\* Option::None for a parent / a reference that is not set
NoSym == 0

BuildSteps == {SYNTAX, ARCH, ARCH_EVAL, ODOO, VALIDATION}
\* the three dependents levels: `dependents: [Vec<..>; 3]`
Levels == {ARCH, ARCH_EVAL, ODOO}
\* the four dependencies steps: `dependencies: [Vec<..>; 4]`
Steps == {ARCH, ARCH_EVAL, ODOO, VALIDATION}

\* ------------------------------------------------------------ the symbols
\* The symbols the behaviours create, in creation order: the variant
\* (SymType), the name, the parent each is added to, for a Package whether it
\* is a Module (PackageSymbol::Module) or a PythonPackage, for a content
\* symbol the section of its range start (get_section_for(range.start()).index),
\* for a child of a Namespace the directory its path lies in, and what adds
\* the symbol: the discovery of the files, a later pass that finds a
\* rebinding in a second section and a file in a second directory, or the
\* pass that adds the classes.
Catalogue == <<
  [typ |-> "ROOT",      name |-> "",    parent |-> NoSym, module |-> FALSE, section |-> 0, dir |-> 0,
   pass |-> "discovery"],
  [typ |-> "PACKAGE",   name |-> "pkg", parent |-> 1,     module |-> FALSE, section |-> 0, dir |-> 0,
   pass |-> "discovery"],
  [typ |-> "FILE",      name |-> "sub", parent |-> 2,     module |-> FALSE, section |-> 0, dir |-> 0,
   pass |-> "discovery"],
  [typ |-> "FILE",      name |-> "sib", parent |-> 2,     module |-> FALSE, section |-> 0, dir |-> 0,
   pass |-> "discovery"],
  [typ |-> "FILE",      name |-> "b",   parent |-> 1,     module |-> FALSE, section |-> 0, dir |-> 0,
   pass |-> "discovery"],
  [typ |-> "NAMESPACE", name |-> "ns",  parent |-> 1,     module |-> FALSE, section |-> 0, dir |-> 0,
   pass |-> "discovery"],
  [typ |-> "PACKAGE",   name |-> "mod", parent |-> 6,     module |-> TRUE,  section |-> 0, dir |-> 0,
   pass |-> "discovery"],
  [typ |-> "FUNCTION",  name |-> "f",   parent |-> 5,     module |-> FALSE, section |-> 0, dir |-> 0,
   pass |-> "discovery"],
  [typ |-> "VARIABLE",  name |-> "v",   parent |-> 8,     module |-> FALSE, section |-> 0, dir |-> 0,
   pass |-> "discovery"],
  [typ |-> "VARIABLE",  name |-> "v",   parent |-> 8,     module |-> FALSE, section |-> 1, dir |-> 0,
   pass |-> "rebind"],
  [typ |-> "FILE",      name |-> "mod", parent |-> 6,     module |-> FALSE, section |-> 0, dir |-> 1,
   pass |-> "rebind"],
  [typ |-> "CLASS",     name |-> "K",   parent |-> 8,     module |-> FALSE, section |-> 0, dir |-> 0,
   pass |-> "classes"],
  [typ |-> "VARIABLE",  name |-> "w",   parent |-> 12,    module |-> FALSE, section |-> 0, dir |-> 0,
   pass |-> "classes"],
  [typ |-> "CLASS",     name |-> "C1",  parent |-> 7,     module |-> FALSE, section |-> 0, dir |-> 0,
   pass |-> "classes"],
  [typ |-> "CLASS",     name |-> "C2",  parent |-> 7,     module |-> FALSE, section |-> 0, dir |-> 0,
   pass |-> "classes"],
  [typ |-> "FILE",      name |-> "builtins", parent |-> 1, module |-> FALSE, section |-> 0, dir |-> 0,
   pass |-> "builtins file"],
  [typ |-> "VARIABLE",  name |-> "len", parent |-> 16,    module |-> FALSE, section |-> 0, dir |-> 0,
   pass |-> "builtins file"],
  [typ |-> "PACKAGE",   name |-> "builtins", parent |-> 1, module |-> FALSE, section |-> 0, dir |-> 0,
   pass |-> "builtins package"],
  [typ |-> "VARIABLE",  name |-> "len", parent |-> 18,    module |-> FALSE, section |-> 0, dir |-> 0,
   pass |-> "builtins package"],
  [typ |-> "FILE",      name |-> "sub", parent |-> 2,     module |-> FALSE, section |-> 0, dir |-> 0,
   pass |-> "reindex"],
  [typ |-> "NAMESPACE", name |-> "ns",  parent |-> 1,     module |-> FALSE, section |-> 0, dir |-> 0,
   pass |-> "reindex"],
  [typ |-> "PACKAGE",   name |-> "mod", parent |-> 6,     module |-> TRUE,  section |-> 0, dir |-> 1,
   pass |-> "reindex"],
  [typ |-> "COMPILED", name |-> "ext", parent |-> 1, module |-> FALSE, section |-> 0, dir |-> 0,
   pass |-> "compiled"],
  [typ |-> "FILE", name |-> "new", parent |-> NoSym, module |-> FALSE, section |-> 0, dir |-> 0,
   pass |-> "dispatch"],
  [typ |-> "PACKAGE", name |-> "new", parent |-> NoSym, module |-> FALSE, section |-> 0, dir |-> 0,
   pass |-> "dispatch"],
  [typ |-> "PACKAGE", name |-> "new", parent |-> NoSym, module |-> TRUE, section |-> 0, dir |-> 0,
   pass |-> "dispatch"],
  [typ |-> "NAMESPACE", name |-> "new", parent |-> NoSym, module |-> FALSE, section |-> 0, dir |-> 0,
   pass |-> "dispatch"],
  [typ |-> "COMPILED", name |-> "new", parent |-> NoSym, module |-> FALSE, section |-> 0, dir |-> 0,
   pass |-> "dispatch"],
  [typ |-> "VARIABLE", name |-> "new", parent |-> NoSym, module |-> FALSE, section |-> 0, dir |-> 0,
   pass |-> "dispatch"],
  [typ |-> "FUNCTION", name |-> "new", parent |-> NoSym, module |-> FALSE, section |-> 0, dir |-> 0,
   pass |-> "dispatch"],
  [typ |-> "CLASS", name |-> "new", parent |-> NoSym, module |-> FALSE, section |-> 0, dir |-> 0,
   pass |-> "dispatch"],
  [typ |-> "FILE", name |-> "pkg", parent |-> 6, module |-> FALSE, section |-> 0, dir |-> 0,
   pass |-> "same name"],
  [typ |-> "VARIABLE", name |-> "x", parent |-> 7, module |-> FALSE, section |-> 0, dir |-> 0,
   pass |-> "sections"],
  [typ |-> "VARIABLE", name |-> "x", parent |-> 7, module |-> FALSE, section |-> 1, dir |-> 0,
   pass |-> "sections"]
>>

Sym == DOMAIN Catalogue
Root == CHOOSE e \in Sym : Catalogue[e].typ = "ROOT"

typ(e) == Catalogue[e].typ
name(e) == Catalogue[e].name
\* the section of the content map a content symbol is pushed under
section(e) == Catalogue[e].section
\* the directory of a Namespace a file structure symbol is inserted in
directory(e) == Catalogue[e].dir
\* the symbols created while the files are discovered
Discovered == {e \in Sym : Catalogue[e].pass = "discovery"}
\* the symbols of the program: every pass over its files has run
Program == {e \in Sym : Catalogue[e].pass \in {"discovery", "rebind", "classes"}}
\* the symbols of the builtins stubs, loaded as a file or as a package
Builtins(kind) == {e \in Sym : Catalogue[e].pass = kind}
BuiltinsKinds == {"builtins file", "builtins package"}
\* the symbols created when a path is indexed again, or found in a second
\* directory of a Namespace
Reindexed == {e \in Sym : Catalogue[e].pass = "reindex"}
\* a compiled extension found beside the program
Compiled == {e \in Sym : Catalogue[e].pass = "compiled"}
\* one new symbol of each variant, to be added under any parent
Dispatched == {e \in Sym : Catalogue[e].pass = "dispatch"}
\* a variable of the module mod bound in two sections
Sectioned == {e \in Sym : Catalogue[e].pass = "sections"}
\* a file of the namespace that carries the name of the package pkg
SameNamed == {e \in Sym : Catalogue[e].pass = "same name"}

\* the (self, symbol, step, dep_level) arguments add_dependency is called with
DepInputs ==
  {<<5, 3, s, l>> : s \in Steps, l \in Steps}
  \cup {<<2, 3, ARCH, ARCH>>, <<3, 2, ARCH, ARCH>>, <<4, 3, ARCH, ARCH>>,
        <<5, 7, ARCH_EVAL, ARCH>>, <<7, 5, VALIDATION, ODOO>>,
        <<5, 6, ARCH, ARCH>>, <<5, 3, SYNTAX, ARCH>>,
        <<6, 5, ARCH, ARCH>>, <<5, 3, ARCH, SYNTAX>>}

VARIABLES
  allocated,       \* symbols created so far
  parent,          \* parent(): Sym -> Sym or NoSym
  symbols,         \* content children: `symbols` of File/Package/Class/Function
  module_symbols,  \* module children: `module_symbols` of Root/Package/Namespace/Compiled
  dependencies,    \* <<a, step, level, b>>: b in a.dependencies[step][level]
  dependents,      \* <<b, level, step, a>>: a in b.dependents[level][step]
  rebuild,         \* the four rebuild worklists of the session, by step
  status,          \* the status fields of each symbol, by step
  modules,         \* session.sync_odoo.modules: <<dir_name, module>>
  ndeps,           \* add_dependency calls made
  panicked,        \* the last operation ended in panic!
  last,            \* the last invalidate call: its arguments, walk and enqueue calls
  vec_to_unload,   \* unload: the deque of symbols to unload
  ref_to_unload,   \* unload: the symbol removed from its parent in this iteration
  upc,             \* unload: position in the loop ("idle", "loop", "removed")
  unl,             \* unload: the call under way or returned: its argument, the subtree
                   \* at the call, the symbols removed and invalidated so far, returned
  evaluations,     \* `evaluations` of each Variable of the evaluated file
  is_import_variable, \* the Variables with `is_import_variable`
  expired,         \* the symbols whose Weak no longer upgrades
  file_ctx,        \* the file of the Variables: is_external, the build status,
                   \* is_in_rebuild(file, ARCH_EVAL)
  fcall,           \* follow_ref: the arguments symbol, stop_on_type, stop_on_value
  results,         \* follow_ref: the deque of (symbol, instance)
  index,           \* follow_ref: the loop index
  fpc,             \* follow_ref: "idle", "loop", "done", or "cut" past the bounds
  flog             \* follow_ref: the elements kept, the expansions per symbol,
                   \* whether eval_arch was run

treeVars == <<allocated, parent, symbols, module_symbols>>
depVars == <<dependencies, dependents, ndeps>>
unloadVars == <<vec_to_unload, ref_to_unload, upc, unl>>
graphVars == <<allocated, parent, symbols, module_symbols, dependencies,
               dependents, rebuild, status, modules, ndeps, panicked, last,
               vec_to_unload, ref_to_unload, upc, unl>>
evalVars == <<evaluations, is_import_variable, expired, file_ctx>>
followVars == <<evaluations, is_import_variable, expired, file_ctx, fcall,
                results, index, fpc, flog>>
vars == <<allocated, parent, symbols, module_symbols, dependencies, dependents,
          rebuild, status, modules, ndeps, panicked, last, vec_to_unload,
          ref_to_unload, upc, unl, evaluations, is_import_variable, expired, file_ctx, fcall,
          results, index, fpc, flog>>

\* ------------------------------------------------------------- ownership
Children(e) == symbols[e] \cup module_symbols[e]

RECURSIVE Closure(_)
Closure(S) ==
  LET T == S \cup UNION {Children(e) : e \in S}
  IN IF T = S THEN S ELSE Closure(T)

\* Strong references (Rc) are held by the session (the root), by the children
\* maps, and by the locals of a running unload.
StrongRoots ==
  {Root} \cup {vec_to_unload[i] : i \in DOMAIN vec_to_unload}
         \cup (IF ref_to_unload = NoSym THEN {} ELSE {ref_to_unload})

\* the symbols a Weak reference still upgrades to
Alive == Closure(StrongRoots)

is_file_content(e) == typ(e) \in {"CLASS", "FUNCTION", "VARIABLE"}

has_modules(e) == typ(e) \in {"ROOT", "NAMESPACE", "PACKAGE"}

\* all_module_symbol that yields nothing for the directories of a Namespace
all_module_symbol_no_directories(e) ==
  IF typ(e) = "NAMESPACE" THEN {} ELSE module_symbols[e]

all_module_symbol(e) == module_symbols[e]

all_symbols(e) ==
  CASE typ(e) \in {"FILE", "CLASS"} -> symbols[e]
    [] typ(e) = "PACKAGE" -> symbols[e] \cup module_symbols[e]
    [] typ(e) = "NAMESPACE" -> module_symbols[e]
    [] OTHER -> {}

RECURSIVE is_symbol_in_parents(_, _)
is_symbol_in_parents(symbol, to_test) ==
  IF symbol = to_test THEN TRUE
  ELSE IF parent[symbol] = NoSym THEN FALSE
  ELSE is_symbol_in_parents(parent[symbol], to_test)

\* the ancestor test made on names: to_test, or a symbol that carries its
\* name, is the symbol or one of its parents
RECURSIVE is_name_in_parents(_, _)
is_name_in_parents(symbol, to_test) ==
  IF name(symbol) = name(to_test) THEN TRUE
  ELSE IF parent[symbol] = NoSym THEN FALSE
  ELSE is_name_in_parents(parent[symbol], to_test)

\* ------------------------------------------------------------ Symbol Store
NoUnload == [root |-> NoSym, sub |-> {}, done |-> FALSE, detached |-> {}, invalidated |-> {}]
NoCall == [op |-> "none", sym |-> NoSym, step |-> ARCH, walked |-> <<>>, calls |-> {}]

\* HashMap::insert of the child under its name in the module map of `self`;
\* a Namespace inserts in the module map of the directory of the child
add_file(self, e) ==
  /\ module_symbols' = [module_symbols EXCEPT
        ![self] = {c \in @ : name(c) # name(e) \/ directory(c) # directory(e)}
                  \cup {e}]
  /\ parent' = [parent EXCEPT ![e] = self]
  /\ UNCHANGED symbols

\* push of the child under its name and section in the content map of `self`
add_symbol(self, e) ==
  /\ symbols' = [symbols EXCEPT ![self] = @ \cup {e}]
  /\ parent' = [parent EXCEPT ![e] = self]
  /\ UNCHANGED module_symbols

\* panic!: the new symbol is dropped, the graph is as it was
PanicTree ==
  /\ panicked' = TRUE
  /\ UNCHANGED <<parent, symbols, module_symbols>>

add_new_file(self, e) ==
  IF typ(self) \in {"NAMESPACE", "PACKAGE", "ROOT"}
  THEN add_file(self, e) /\ panicked' = FALSE
  ELSE PanicTree

add_new_python_package(self, e) ==
  IF typ(self) \in {"NAMESPACE", "PACKAGE", "ROOT"}
  THEN add_file(self, e) /\ panicked' = FALSE
  ELSE PanicTree

add_new_module_package(self, e) ==
  IF typ(self) \in {"NAMESPACE", "PACKAGE", "ROOT"}
  THEN add_file(self, e) /\ panicked' = FALSE
  ELSE PanicTree

add_new_namespace(self, e) ==
  IF typ(self) \in {"NAMESPACE", "PACKAGE", "ROOT"}
  THEN add_file(self, e) /\ panicked' = FALSE
  ELSE PanicTree

\* add_new_compiled without the arm for a Compiled parent
add_new_compiled_no_compiled_arm(self, e) ==
  IF typ(self) \in {"NAMESPACE", "PACKAGE", "ROOT"}
  THEN add_file(self, e) /\ panicked' = FALSE
  ELSE PanicTree

add_new_compiled(self, e) ==
  IF typ(self) \in {"NAMESPACE", "PACKAGE", "ROOT", "COMPILED"}
  THEN add_file(self, e) /\ panicked' = FALSE
  ELSE PanicTree

add_new_content(self, e) ==
  IF typ(self) \in {"FILE", "PACKAGE", "CLASS", "FUNCTION"}
  THEN add_symbol(self, e) /\ panicked' = FALSE
  ELSE PanicTree

add_new_variable(self, e) == add_new_content(self, e)
add_new_function(self, e) == add_new_content(self, e)
add_new_class(self, e) == add_new_content(self, e)

\* session.sync_odoo.modules.insert(dir_name, weak module)
modules_insert(e) == {r \in modules : r[1] # name(e)} \cup {<<name(e), e>>}
\* session.sync_odoo.modules.remove(dir_name)
modules_remove(e) == {r \in modules : r[1] # name(e)}

\* A symbol of the catalogue is created under its parent by the add_new_* of
\* its variant; a Module is created as create_from_path does, which
\* registers it in the module registry.
create_symbol(e) ==
  /\ UNCHANGED <<followVars, status>>
  /\ upc = "idle" /\ ~panicked
  /\ e \notin allocated
  /\ Catalogue[e].parent \in Alive
  /\ allocated' = allocated \cup {e}
  /\ LET self == Catalogue[e].parent IN
       CASE typ(e) = "FILE" -> add_new_file(self, e)
         [] typ(e) = "PACKAGE" /\ Catalogue[e].module -> add_new_module_package(self, e)
         [] typ(e) = "PACKAGE" /\ ~Catalogue[e].module -> add_new_python_package(self, e)
         [] typ(e) = "NAMESPACE" -> add_new_namespace(self, e)
         [] typ(e) = "COMPILED" -> add_new_compiled(self, e)
         [] typ(e) = "VARIABLE" -> add_new_variable(self, e)
         [] typ(e) = "FUNCTION" -> add_new_function(self, e)
         [] typ(e) = "CLASS" -> add_new_class(self, e)
  /\ modules' = IF typ(e) = "PACKAGE" /\ Catalogue[e].module /\ ~panicked'
                THEN modules_insert(e) ELSE modules
  /\ unl' = NoUnload
  /\ UNCHANGED <<dependencies, dependents, ndeps, rebuild, vec_to_unload,
                 ref_to_unload, upc>>

\* the next symbol of the catalogue is created
CreateSymbolCall(e) ==
  /\ \A d \in Sym : d < e => d \in allocated
  /\ create_symbol(e)
  /\ last' = NoCall

\* the child that `self` lists under the name and directory of e
listed_as(self, e) ==
  LET same == {c \in module_symbols[self] :
                 name(c) = name(e) /\ directory(c) = directory(e)}
  IN IF same = {} THEN NoSym ELSE CHOOSE c \in same : TRUE

\* a path is indexed again: create_from_path(session, path, parent, _)
\* returns the symbol it creates
CreateAgain(e) ==
  /\ e \in Reindexed
  /\ create_symbol(e)
  /\ last' = [op |-> "create_from_path", sym |-> e, step |-> ARCH,
              walked |-> <<>>, calls |-> {}, other |-> Catalogue[e].parent,
              previous |-> listed_as(Catalogue[e].parent, e),
              previous_children |->
                IF listed_as(Catalogue[e].parent, e) = NoSym THEN {}
                ELSE Children(listed_as(Catalogue[e].parent, e))]

\* a file, package or namespace is discovered, or its first symbols are
CreateSymbol(e) ==
  /\ e \in Discovered
  /\ CreateSymbolCall(e)

\* a later pass adds a symbol to the discovered tree
CreateLate(e) ==
  /\ Catalogue[e].pass = "rebind"
  /\ CreateSymbolCall(e)

\* -------------------------------------------------------- Dependency Graph
add_dependency_accepts(self, symbol, step, dep_level) ==
  /\ ~(step = SYNTAX \/ dep_level = SYNTAX)
  /\ ~(dep_level > ARCH /\ (step < ODOO \/ dep_level = VALIDATION))
  /\ typ(self) \in {"FILE", "PACKAGE"}
  /\ typ(symbol) \in {"FILE", "PACKAGE"}

\* add_dependency whose second insertion of an edge takes the edge out again
add_dependency_toggles(self, symbol, step, dep_level) ==
  IF add_dependency_accepts(self, symbol, step, dep_level)
  THEN /\ dependencies' =
            IF <<self, step, dep_level, symbol>> \in dependencies
            THEN dependencies \ {<<self, step, dep_level, symbol>>}
            ELSE dependencies \cup {<<self, step, dep_level, symbol>>}
       /\ dependents' =
            IF <<symbol, dep_level, step, self>> \in dependents
            THEN dependents \ {<<symbol, dep_level, step, self>>}
            ELSE dependents \cup {<<symbol, dep_level, step, self>>}
       /\ panicked' = FALSE
  ELSE /\ panicked' = TRUE
       /\ UNCHANGED <<dependencies, dependents>>

\* add_dependency that records the edge on the depending side only
add_dependency_one_sided(self, symbol, step, dep_level) ==
  IF add_dependency_accepts(self, symbol, step, dep_level)
  THEN /\ dependencies' = dependencies \cup {<<self, step, dep_level, symbol>>}
       /\ dependents' = dependents
       /\ panicked' = FALSE
  ELSE /\ panicked' = TRUE
       /\ UNCHANGED <<dependencies, dependents>>

add_dependency(self, symbol, step, dep_level) ==
  IF add_dependency_accepts(self, symbol, step, dep_level)
  THEN /\ dependencies' = dependencies \cup {<<self, step, dep_level, symbol>>}
       /\ dependents' = dependents \cup {<<symbol, dep_level, step, self>>}
       /\ panicked' = FALSE
  ELSE /\ panicked' = TRUE
       /\ UNCHANGED <<dependencies, dependents>>

\* a.add_dependency(b, step, level) is called
AddDependencyCall(a, b, step, level) ==
  /\ UNCHANGED <<followVars, status>>
  /\ upc = "idle" /\ ~panicked
  /\ a \in Alive /\ b \in Alive /\ a # b
  /\ add_dependency(a, b, step, level)
  /\ ndeps' = ndeps + 1
  /\ last' = [op |-> "add_dependency", sym |-> a, step |-> step,
              walked |-> <<>>, calls |-> {}, other |-> b, level |-> level,
              before |-> <<dependencies, dependents>>]
  /\ unl' = NoUnload
  /\ UNCHANGED <<allocated, parent, symbols, module_symbols, rebuild, modules,
                 vec_to_unload, ref_to_unload, upc>>

AddDependency(a, b, step, level) ==
  /\ ndeps < MaxDeps
  /\ AddDependencyCall(a, b, step, level)

\* ------------------------------------------------ access to the edge sets
\* the variants on which dependencies(), dependencies_mut(), dependents()
\* and dependents_as_mut() panic
edge_access_panics(t) ==
  t \in {"ROOT", "COMPILED", "CLASS", "FUNCTION", "VARIABLE"}

get_dependencies_panics(t, step, level) ==
  \/ step = SYNTAX \/ level = SYNTAX
  \/ level > ARCH /\ (step < ODOO \/ level = VALIDATION)
  \/ t \in {"ROOT", "COMPILED", "CLASS", "FUNCTION", "VARIABLE"}

get_all_dependencies_panics(t, step) ==
  \/ step = SYNTAX
  \/ t \in {"ROOT", "COMPILED", "CLASS", "FUNCTION", "VARIABLE"}

get_dependents_panics(t, level, step) ==
  \/ level = SYNTAX \/ step = SYNTAX
  \/ level = VALIDATION
  \/ level > ARCH /\ step < ODOO
  \/ t \in {"ROOT", "COMPILED", "CLASS", "FUNCTION", "VARIABLE"}

EdgeAccessors == {"dependencies", "dependencies_mut", "dependents", "dependents_as_mut"}

\* the symbols the accessors and getters are called on: one of each variant
EdgeSubjects ==
  {CHOOSE e \in Program : typ(e) = t : t \in {typ(d) : d \in Program}}

\* the (step, level) arguments the getters are called with
EdgeInputs ==
  {<<ARCH, ARCH>>, <<ODOO, ARCH_EVAL>>, <<ARCH_EVAL, ARCH_EVAL>>, <<SYNTAX, ARCH>>}

\* one of the accessors or getters is called on e; none changes the graph
EdgeAccess(op, e, step, level) ==
  /\ UNCHANGED <<followVars, status>>
  /\ upc = "idle" /\ ~panicked
  /\ e \in Alive
  /\ panicked' =
       CASE op \in EdgeAccessors -> edge_access_panics(typ(e))
         [] op = "get_dependencies" -> get_dependencies_panics(typ(e), step, level)
         [] op = "get_all_dependencies" -> get_all_dependencies_panics(typ(e), step)
         [] op = "get_dependents" -> get_dependents_panics(typ(e), level, step)
  /\ last' = [op |-> op, sym |-> e, step |-> step, walked |-> <<>>,
              calls |-> {}, level |-> level]
  /\ unl' = NoUnload
  /\ UNCHANGED <<allocated, parent, symbols, module_symbols, dependencies,
                 dependents, ndeps, rebuild, modules, vec_to_unload,
                 ref_to_unload, upc>>

\* the live members of sym.dependents()[level][step] (a weak set iterates
\* over the entries that still upgrade)
get_dependents(sym, level, step) ==
  {d \in {t[4] : t \in {u \in dependents :
                           u[1] = sym /\ u[2] = level /\ u[3] = step}} :
     d \in Alive}

get_dependencies(sym, step, level) ==
  {d \in {t[4] : t \in {u \in dependencies :
                           u[1] = sym /\ u[2] = step /\ u[3] = level}} :
     d \in Alive}

\* ------------------------------------------------------------- invalidate
\* The add_to_* calls invalidate makes while it walks sym_to_inv, as
\* <<walked symbol, level, index, dependent>>: index names the worklist.
\* one `for (index, hashset) in dependents()[level]` loop: the add_to_* call
\* of each member the ancestor test lets through, for the indexes it handles
\* the loop without its `!Symbol::is_symbol_in_parents(&sym, &ref_to_inv)` test
invalidate_level_unfiltered(ref_to_inv, level, indexes) ==
  UNION {{<<ref_to_inv, level, step_index, sym>> :
            sym \in get_dependents(ref_to_inv, level, step_index)} :
         step_index \in indexes}

\* the loop with the ancestor test the other way round: it lets through the
\* dependents that are not above the walked symbol
invalidate_level_skips_ancestors(ref_to_inv, level, indexes) ==
  UNION {{<<ref_to_inv, level, step_index, sym>> :
            sym \in {d \in get_dependents(ref_to_inv, level, step_index) :
                       ~is_symbol_in_parents(ref_to_inv, d)}} :
         step_index \in indexes}

\* the loop with the ancestor test made on names
invalidate_level_by_name(ref_to_inv, level, indexes) ==
  UNION {{<<ref_to_inv, level, step_index, sym>> :
            sym \in {d \in get_dependents(ref_to_inv, level, step_index) :
                       ~is_name_in_parents(d, ref_to_inv)}} :
         step_index \in indexes}

invalidate_level(ref_to_inv, level, indexes) ==
  UNION {{<<ref_to_inv, level, step_index, sym>> :
            sym \in {d \in get_dependents(ref_to_inv, level, step_index) :
                       ~is_symbol_in_parents(d, ref_to_inv)}} :
         step_index \in indexes}

\* invalidate whose first block also runs for a change at ARCH_EVAL
invalidate_one_arch_on_eval(ref_to_inv, step) ==
  IF typ(ref_to_inv) \in {"FILE", "PACKAGE"}
  THEN (IF step \in {ARCH, ARCH_EVAL}
        THEN invalidate_level(ref_to_inv, ARCH, {ARCH, ARCH_EVAL, ODOO, VALIDATION})
             \cup invalidate_level(ref_to_inv, ARCH_EVAL, {ARCH_EVAL, ODOO, VALIDATION})
        ELSE {})
       \cup
       (IF step \in {ARCH, ARCH_EVAL, ODOO}
        THEN invalidate_level(ref_to_inv, ODOO, {ODOO, VALIDATION})
        ELSE {})
  ELSE {}

invalidate_one(ref_to_inv, step) ==
  IF typ(ref_to_inv) \in {"FILE", "PACKAGE"}
  THEN (IF step = ARCH
        THEN invalidate_level(ref_to_inv, ARCH, {ARCH, ARCH_EVAL, ODOO, VALIDATION})
        ELSE {})
       \cup
       (IF step \in {ARCH, ARCH_EVAL}
        THEN invalidate_level(ref_to_inv, ARCH_EVAL, {ARCH_EVAL, ODOO, VALIDATION})
        ELSE {})
       \cup
       (IF step \in {ARCH, ARCH_EVAL, ODOO}
        THEN invalidate_level(ref_to_inv, ODOO, {ODOO, VALIDATION})
        ELSE {})
  ELSE {}

RECURSIVE SetToSeq(_)
SetToSeq(S) ==
  IF S = {} THEN <<>>
  ELSE LET x == CHOOSE y \in S : \A z \in S : y <= z
       IN <<x>> \o SetToSeq(S \ {x})

\* the order in which the deque vec_to_invalidate is popped
RECURSIVE invalidate_walk(_, _)
invalidate_walk(vec_to_invalidate, walked) ==
  IF vec_to_invalidate = <<>> THEN walked
  ELSE LET ref_to_inv == Head(vec_to_invalidate)
       IN invalidate_walk(
            Tail(vec_to_invalidate)
              \o (IF has_modules(ref_to_inv)
                  THEN SetToSeq(all_module_symbol(ref_to_inv)) ELSE <<>>),
            Append(walked, ref_to_inv))

invalidate_calls(symbol, step) ==
  LET walked == invalidate_walk(<<symbol>>, <<>>)
  IN UNION {invalidate_one(walked[i], step) : i \in DOMAIN walked}

\* add_to_rebuild_arch / add_to_rebuild_arch_eval / add_to_init_odoo /
\* add_to_validations: the symbol joins the worklist of the step
add_to_rebuild(calls) ==
  [k \in Steps |-> rebuild[k] \cup {c[4] : c \in {d \in calls : d[3] = k}}]

\* the worklists mark what is to be re-run: the step a symbol is enqueued
\* for, and the steps after it, are PENDING again
add_to_rebuild_status(calls) ==
  [e \in Sym |->
     [k \in Steps |->
        IF \E c \in calls : c[4] = e /\ c[3] <= k
        THEN "PENDING" ELSE status[e][k]]]

\* invalidate that takes the dependents it has read out of the sets of the
\* symbol
invalidate_drains(symbol, step) ==
  /\ UNCHANGED followVars
  /\ upc = "idle" /\ ~panicked
  /\ symbol \in Alive
  /\ rebuild' = add_to_rebuild(invalidate_calls(symbol, step))
  /\ status' = add_to_rebuild_status(invalidate_calls(symbol, step))
  /\ dependents' = {t \in dependents : t[1] # symbol}
  /\ last' = [op |-> "invalidate", sym |-> symbol, step |-> step,
              walked |-> invalidate_walk(<<symbol>>, <<>>),
              calls |-> invalidate_calls(symbol, step)]
  /\ panicked' = FALSE
  /\ unl' = NoUnload
  /\ UNCHANGED <<allocated, parent, symbols, module_symbols, dependencies,
                 ndeps, modules, vec_to_unload, ref_to_unload, upc>>

Invalidate(symbol, step) ==
  /\ UNCHANGED followVars
  /\ upc = "idle" /\ ~panicked
  /\ symbol \in Alive
  /\ rebuild' = add_to_rebuild(invalidate_calls(symbol, step))
  /\ status' = add_to_rebuild_status(invalidate_calls(symbol, step))
  /\ last' = [op |-> "invalidate", sym |-> symbol, step |-> step,
              walked |-> invalidate_walk(<<symbol>>, <<>>),
              calls |-> invalidate_calls(symbol, step)]
  /\ panicked' = FALSE
  /\ unl' = NoUnload
  /\ UNCHANGED <<allocated, parent, symbols, module_symbols, dependencies,
                 dependents, ndeps, modules, vec_to_unload, ref_to_unload, upc>>

\* ---------------------------------------------------------- remove_symbol
\* remove_symbol that clears the parent of the symbol and leaves the maps
remove_symbol_keeps_entry(self, symbol) ==
  /\ parent' = [parent EXCEPT ![symbol] = NoSym]
  /\ panicked' = FALSE
  /\ UNCHANGED <<symbols, module_symbols>>

remove_symbol(self, symbol) ==
  IF is_file_content(symbol)
  THEN IF typ(self) \in {"CLASS", "FILE", "FUNCTION", "PACKAGE"}
       THEN /\ symbols' = [symbols EXCEPT
                 ![self] = {c \in @ : name(c) # name(symbol)}]
            /\ parent' = [parent EXCEPT ![symbol] = NoSym]
            /\ panicked' = FALSE
            /\ UNCHANGED module_symbols
       ELSE PanicTree
  ELSE IF typ(self) \in {"PACKAGE", "COMPILED", "NAMESPACE", "ROOT"}
       THEN /\ module_symbols' = [module_symbols EXCEPT
                 ![self] = {c \in @ : name(c) # name(symbol)}]
            /\ parent' = [parent EXCEPT ![symbol] = NoSym]
            /\ panicked' = FALSE
            /\ UNCHANGED symbols
       ELSE PanicTree

\* parent.remove_symbol(symbol), called on the parent of an attached symbol
RemoveSymbol(symbol) ==
  /\ UNCHANGED <<followVars, status>>
  /\ upc = "idle" /\ ~panicked
  /\ Discovered \subseteq allocated
  /\ symbol \in Alive /\ parent[symbol] # NoSym
  /\ remove_symbol(parent[symbol], symbol)
  /\ last' = [op |-> "remove_symbol", sym |-> symbol, step |-> ARCH,
              walked |-> <<>>, calls |-> {}, other |-> parent[symbol],
              before |-> Children(parent[symbol])]
  /\ unl' = NoUnload
  /\ UNCHANGED <<allocated, dependencies, dependents, ndeps, rebuild, modules,
                 vec_to_unload, ref_to_unload, upc>>

\* ------------------------------------------------------------------ unload
\* the orders in which an iterator over hash maps may yield the set S
Orders(S) ==
  {s \in [1..Cardinality(S) -> S] : \A i, j \in DOMAIN s : s[i] = s[j] => i = j}

\* Symbol::unload is entered: vec_to_unload = [symbol]
UnloadStart(symbol) ==
  /\ UNCHANGED <<followVars, status>>
  /\ upc = "idle" /\ ~panicked
  /\ Discovered \subseteq allocated
  /\ symbol \in Alive
  /\ vec_to_unload' = <<symbol>>
  /\ upc' = "loop"
  /\ unl' = [root |-> symbol, sub |-> Closure({symbol}), done |-> FALSE,
             detached |-> {}, invalidated |-> {}]
  /\ last' = NoCall
  /\ UNCHANGED <<allocated, parent, symbols, module_symbols, dependencies,
                 dependents, ndeps, rebuild, modules, panicked, ref_to_unload>>

\* Symbol::unload is entered with a reference the caller has kept to a symbol
\* without parent: the symbol it has just passed to remove_symbol, or to an
\* unload that has returned
UnloadHeld(symbol) ==
  /\ UNCHANGED <<followVars, status>>
  /\ upc = "idle" /\ ~panicked
  /\ \/ last.op = "remove_symbol" /\ last.sym = symbol
     \/ unl.done /\ unl.root = symbol
  /\ parent[symbol] = NoSym
  /\ vec_to_unload' = <<symbol>>
  /\ upc' = "loop"
  /\ unl' = [root |-> symbol, sub |-> Closure({symbol}), done |-> FALSE,
             detached |-> {}, invalidated |-> {}]
  /\ last' = NoCall
  /\ UNCHANGED <<allocated, parent, symbols, module_symbols, dependencies,
                 dependents, ndeps, rebuild, modules, panicked, ref_to_unload>>

\* an iteration that finds children: each is pushed to the front, `continue`
UnloadPush ==
  /\ UNCHANGED <<followVars, status>>
  /\ upc = "loop"
  /\ all_symbols(Head(vec_to_unload)) # {}
  /\ \E order \in Orders(all_symbols(Head(vec_to_unload))) :
       vec_to_unload' = order \o vec_to_unload
  /\ UNCHANGED <<allocated, parent, symbols, module_symbols, dependencies,
                 dependents, ndeps, rebuild, modules, panicked, last,
                 ref_to_unload, upc, unl>>

\* an iteration that finds none: pop_front, then the symbol is removed
\* from its parent (`parent().as_ref().unwrap()` panics without a parent)
UnloadRemove ==
  /\ UNCHANGED <<followVars, status>>
  /\ upc = "loop"
  /\ all_symbols(Head(vec_to_unload)) = {}
  /\ LET ref == Head(vec_to_unload) IN
       IF parent[ref] = NoSym
       THEN /\ PanicTree
            /\ vec_to_unload' = <<>>
            /\ ref_to_unload' = NoSym
            /\ upc' = "idle"
            /\ unl' = unl
       ELSE /\ remove_symbol(parent[ref], ref)
            /\ vec_to_unload' = IF panicked' THEN <<>> ELSE Tail(vec_to_unload)
            /\ ref_to_unload' = IF panicked' THEN NoSym ELSE ref
            /\ upc' = IF panicked' THEN "idle" ELSE "removed"
            /\ unl' = IF panicked' THEN unl
                      ELSE [unl EXCEPT !.detached = @ \cup {ref}]
  /\ UNCHANGED <<allocated, dependencies, dependents, ndeps, rebuild, modules,
                 last>>

\* unload that invalidates for a File only
unload_invalidates_file_only(e) == typ(e) = "FILE"

\* `vec![SymType::FILE, SymType::PACKAGE].contains(&ref_to_unload.borrow().typ())`
unload_invalidates(e) == typ(e) \in {"FILE", "PACKAGE"}

\* the rest of the iteration: invalidate a File or Package, take a Module
\* out of the module registry, drop the reference
UnloadInvalidate ==
  /\ UNCHANGED followVars
  /\ upc = "removed"
  /\ LET calls == IF unload_invalidates(ref_to_unload)
                  THEN invalidate_calls(ref_to_unload, ARCH) ELSE {}
     IN /\ rebuild' = add_to_rebuild(calls)
        /\ status' = add_to_rebuild_status(calls)
        /\ last' = IF unload_invalidates(ref_to_unload)
                   THEN [op |-> "unload", sym |-> ref_to_unload, step |-> ARCH,
                         walked |-> invalidate_walk(<<ref_to_unload>>, <<>>),
                         calls |-> calls]
                   ELSE last
  /\ modules' = IF typ(ref_to_unload) = "PACKAGE" /\ Catalogue[ref_to_unload].module
                THEN modules_remove(ref_to_unload) ELSE modules
  /\ ref_to_unload' = NoSym
  /\ upc' = IF vec_to_unload = <<>> THEN "idle" ELSE "loop"
  /\ unl' = [unl EXCEPT !.done = (vec_to_unload = <<>>),
                        !.invalidated = IF unload_invalidates(ref_to_unload)
                                        THEN @ \cup {ref_to_unload} ELSE @]
  /\ UNCHANGED <<allocated, parent, symbols, module_symbols, dependencies,
                 dependents, ndeps, panicked, vec_to_unload>>

\* -------------------------------------------------------------- follow_ref
\* The symbols of the evaluated file: two Variables and a Class.
EvalSym == {"y", "a", "C"}
sym_typ(s) == IF s = "C" THEN "CLASS" ELSE "VARIABLE"
Variables == {s \in EvalSym : sym_typ(s) = "VARIABLE"}

\* an Evaluation: the symbol it points to, whether it is an instance of it,
\* and whether it carries a value (`value.is_some()`)
Evaluation ==
  [symbol : EvalSym, instance : BOOLEAN, value : BOOLEAN]

\* the evaluations a Variable v may hold: n of them, each to another symbol,
\* an instance exactly when it carries a value
EvaluationsOf(v, n) ==
  [1..n -> {e \in Evaluation : e.symbol # v /\ e.instance = e.value}]

\* the evaluation graphs of at most MaxEvals evaluations
EvalGraphs ==
  UNION {UNION {{[y |-> ey, a |-> ea] : ey \in EvaluationsOf("y", n),
                                        ea \in EvaluationsOf("a", m)} :
                m \in 0..(MaxEvals - n)} :
         n \in 0..MaxEvals}

BuildStatus == {"PENDING", "IN_PROGRESS", "DONE", "INVALID"}

\* the variants that carry the four status fields
has_build_status(t) == t \in {"PACKAGE", "FILE", "CLASS", "FUNCTION"}

\* self.build_status(step), f being the four status fields of self
build_status(f, step) == f[step]

\* self.set_build_status(step, status): the field of the step is assigned
set_build_status(f, step, st) == [f EXCEPT ![step] = st]

\* (is_external, the status fields, is_in_rebuild(file, ARCH_EVAL)) of the file
FileContexts ==
  {[external |-> FALSE, status |-> [k \in Steps |-> "PENDING"], in_rebuild |-> TRUE],
   [external |-> FALSE,
    status |-> [k \in Steps |-> IF k = ARCH THEN "IN_PROGRESS" ELSE "PENDING"],
    in_rebuild |-> TRUE],
   [external |-> FALSE,
    status |-> [k \in Steps |-> IF k = ARCH THEN "DONE" ELSE "PENDING"],
    in_rebuild |-> TRUE],
   [external |-> TRUE, status |-> [k \in Steps |-> "PENDING"], in_rebuild |-> TRUE]}

NoFollow == [symbol |-> "", stop_on_type |-> FALSE, stop_on_value |-> FALSE]
NoLog == [kept |-> {}, expanded |-> {}, eval_arch |-> FALSE]

\* eval.symbol.get_symbol(session, context, diagnostics)
get_symbol(eval) == <<eval.symbol, eval.instance>>

\* next_refs that also returns the references that no longer upgrade
next_refs_of_keeps_expired(symbol, evals) ==
  IF sym_typ(symbol) = "VARIABLE"
  THEN [i \in DOMAIN evals[symbol] |-> get_symbol(evals[symbol][i])]
  ELSE <<>>

\* next_refs over the evaluations evals of its argument
next_refs_of(symbol, evals) ==
  IF sym_typ(symbol) = "VARIABLE"
  THEN SelectSeq([i \in DOMAIN evals[symbol] |-> get_symbol(evals[symbol][i])],
                 LAMBDA r : r[1] \notin expired)
  ELSE <<>>

next_refs(symbol) == next_refs_of(symbol, evaluations)

\* PythonArchEval::eval_arch on the file: its unevaluated Variables are
\* evaluated, the file leaves the ARCH_EVAL worklist
eval_arch_evaluations ==
  [v \in Variables |->
     IF evaluations[v] = <<>>
     THEN <<[symbol |-> "C", instance |-> TRUE, value |-> TRUE]>>
     ELSE evaluations[v]]

\* the ARCH_EVAL builder ran on the file: the stage is done and the file has
\* left the ARCH_EVAL worklist
eval_arch_ctx ==
  [file_ctx EXCEPT !.status = set_build_status(@, ARCH_EVAL, "DONE"),
                   !.in_rebuild = FALSE]

\* follow_ref is entered: results = next_refs(symbol), and the early return
FollowStart(symbol, sot, sov) ==
  /\ fpc = "idle"
  /\ symbol \notin expired
  /\ fcall' = [symbol |-> symbol, stop_on_type |-> sot, stop_on_value |-> sov]
  /\ flog' = NoLog
  /\ index' = 0
  /\ IF next_refs(symbol) = <<>>
     THEN /\ results' = <<<<symbol, sym_typ(symbol) = "VARIABLE">>>>
          /\ fpc' = "done"
     ELSE /\ results' = next_refs(symbol)
          /\ fpc' = "loop"
  /\ UNCHANGED <<graphVars, evalVars>>

\* the element at index is left in place: `index += 1; continue`
follow_keep(sym, instance) ==
  /\ index' = index + 1
  /\ flog' = [flog EXCEPT !.kept = @ \cup {<<sym, instance>>}]
  /\ UNCHANGED <<results, fpc, evaluations, file_ctx>>

\* the element at index is a Variable that is not kept
follow_expand(sym) ==
  LET trigger == /\ evaluations[sym] = <<>>
                 /\ ~file_ctx.external
                 /\ build_status(file_ctx.status, ARCH) = "PENDING"
                 /\ file_ctx.in_rebuild
      evals == IF trigger THEN eval_arch_evaluations ELSE evaluations
      next_sym_refs == next_refs_of(sym, evals)
  IN /\ evaluations' = evals
     /\ file_ctx' = IF trigger THEN eval_arch_ctx ELSE file_ctx
     /\ IF Len(next_sym_refs) >= 1
        THEN /\ results' = Tail(results) \o next_sym_refs
             /\ index' = index
             /\ flog' = [flog EXCEPT !.expanded = @ \cup {sym},
                                     !.eval_arch = @ \/ trigger]
             /\ fpc' = IF Len(results') > MaxResults THEN "cut" ELSE fpc
        ELSE /\ index' = index + 1
             /\ flog' = [flog EXCEPT !.eval_arch = @ \/ trigger]
             /\ UNCHANGED <<results, fpc>>

\* one iteration of `while index < results.len()`
FollowStep ==
  /\ fpc = "loop"
  /\ index < Len(results)
  /\ LET sym == results[index + 1][1]
         instance == results[index + 1][2]
     IN IF sym \in expired
        THEN /\ index' = index + 1
             /\ UNCHANGED <<results, fpc, flog, evaluations, file_ctx>>
        ELSE IF sym_typ(sym) = "VARIABLE"
        THEN IF fcall.stop_on_type /\ ~instance /\ sym \notin is_import_variable
             THEN follow_keep(sym, instance)
             ELSE IF /\ fcall.stop_on_value
                     /\ Len(evaluations[sym]) = 1
                     /\ evaluations[sym][1].value
             THEN follow_keep(sym, instance)
             ELSE follow_expand(sym)
        ELSE /\ index' = index + 1
             /\ UNCHANGED <<results, fpc, flog, evaluations, file_ctx>>
  /\ UNCHANGED <<graphVars, is_import_variable, expired, fcall>>

\* the loop ends: `return Vec::from(results)`
FollowReturn ==
  /\ fpc = "loop"
  /\ index >= Len(results)
  /\ fpc' = "done"
  /\ UNCHANGED <<graphVars, evalVars, fcall, results, index, flog>>

\* ------------------------------------------------------------------- Spec
InitGraph ==
  /\ allocated = {Root}
  /\ parent = [e \in Sym |-> NoSym]
  /\ symbols = [e \in Sym |-> {}]
  /\ module_symbols = [e \in Sym |-> {}]
  /\ dependencies = {}
  /\ dependents = {}
  /\ rebuild = [k \in Steps |-> {}]
  /\ status = [e \in Sym |-> [k \in Steps |-> "PENDING"]]
  /\ modules = {}
  /\ ndeps = 0
  /\ panicked = FALSE
  /\ last = NoCall
  /\ vec_to_unload = <<>>
  /\ ref_to_unload = NoSym
  /\ upc = "idle"
  /\ unl = NoUnload

InitFollowIdle ==
  /\ fcall = NoFollow
  /\ results = <<>>
  /\ index = 0
  /\ fpc = "idle"
  /\ flog = NoLog

Init ==
  /\ InitGraph
  /\ evaluations = [v \in Variables |-> <<>>]
  /\ is_import_variable = {}
  /\ expired = {}
  /\ file_ctx \in {c \in FileContexts : c.external}
  /\ InitFollowIdle

\* files are discovered, dependencies recorded, symbols removed and unloaded
Next ==
  \/ \E e \in Discovered : CreateSymbol(e)
  \/ \E d \in DepInputs : AddDependency(d[1], d[2], d[3], d[4])
  \/ \E e \in allocated : RemoveSymbol(e)
  \/ \E e \in allocated : UnloadStart(e)
  \/ UnloadPush
  \/ UnloadRemove
  \/ UnloadInvalidate

Spec == Init /\ [][Next]_vars

\* files are discovered, dependencies recorded, changes notified
NextInvalidate ==
  \/ \E e \in Discovered : CreateSymbol(e)
  \/ \E d \in DepInputs : AddDependency(d[1], d[2], d[3], d[4])
  \/ \E e \in allocated, s \in BuildSteps : Invalidate(e, s)

SpecInvalidate == Init /\ [][NextInvalidate]_vars

\* the symbols of S have been created, each by the add_new_* of its variant
TreeOf(S) ==
  /\ allocated = S
  /\ parent = [e \in Sym |-> IF e \in S THEN Catalogue[e].parent ELSE NoSym]
  /\ symbols = [p \in Sym |->
                  {e \in S : Catalogue[e].parent = p /\ is_file_content(e)}]
  /\ module_symbols = [p \in Sym |->
                  {e \in S : Catalogue[e].parent = p /\ ~is_file_content(e)}]
  /\ modules = {<<name(e), e>> : e \in {d \in S : Catalogue[d].module}}

\* every symbol of the catalogue has been created
BuiltTree == TreeOf(Program)

\* no operation is under way
InitIdle ==
  /\ rebuild = [k \in Steps |-> {}]
  /\ ndeps = 0
  /\ panicked = FALSE
  /\ last = NoCall
  /\ vec_to_unload = <<>>
  /\ ref_to_unload = NoSym
  /\ upc = "idle"
  /\ unl = NoUnload

InitBuilt ==
  /\ BuiltTree
  /\ InitIdle
  /\ dependencies = {}
  /\ dependents = {}
  /\ status = [e \in Sym |-> [k \in Steps |-> "PENDING"]]

\* the files are discovered and nothing depends on anything yet
InitTree ==
  /\ TreeOf(Discovered)
  /\ InitIdle
  /\ dependencies = {}
  /\ dependents = {}
  /\ status = [e \in Sym |-> [k \in Steps |-> "PENDING"]]
  /\ evaluations = [v \in Variables |-> <<>>]
  /\ is_import_variable = {}
  /\ expired = {}
  /\ file_ctx \in {c \in FileContexts : c.external}
  /\ InitFollowIdle

\* symbols are added to the discovered tree, removed and unloaded
NextTree ==
  \/ \E e \in Sym : CreateLate(e)
  \/ \E e \in allocated : RemoveSymbol(e)
  \/ \E e \in allocated : UnloadStart(e)
  \/ UnloadPush
  \/ UnloadRemove
  \/ UnloadInvalidate

SpecTree == InitTree /\ [][NextTree]_vars

InitDeps ==
  /\ InitBuilt
  /\ evaluations = [v \in Variables |-> <<>>]
  /\ is_import_variable = {}
  /\ expired = {}
  /\ file_ctx \in {c \in FileContexts : c.external}
  /\ InitFollowIdle

AddDependencyBuilt(a, b, step, level) ==
  /\ ndeps < MaxDepCalls
  /\ AddDependencyCall(a, b, step, level)

\* on the built tree, dependencies are recorded and the edge sets are read
NextDeps ==
  \/ \E d \in DepInputs : AddDependencyBuilt(d[1], d[2], d[3], d[4])
  \/ \E op \in EdgeAccessors, e \in EdgeSubjects : EdgeAccess(op, e, ARCH, ARCH)
  \/ \E op \in {"get_dependencies", "get_all_dependencies", "get_dependents"},
         e \in EdgeSubjects, i \in EdgeInputs : EdgeAccess(op, e, i[1], i[2])

SpecDeps == InitDeps /\ [][NextDeps]_vars

\* the discovered tree and, in the namespace, a file named like the package
InitSameName ==
  /\ TreeOf(Discovered \cup SameNamed)
  /\ InitIdle
  /\ dependencies = {}
  /\ dependents = {}
  /\ status = [e \in Sym |-> [k \in Steps |-> "PENDING"]]
  /\ evaluations = [v \in Variables |-> <<>>]
  /\ is_import_variable = {}
  /\ expired = {}
  /\ file_ctx \in {c \in FileContexts : c.external}
  /\ InitFollowIdle

\* the (self, symbol, step, dep_level) arguments of add_dependency between
\* the package pkg (2), its files sub (3) and sib (4), and the file pkg (32)
SameNameDeps ==
  {<<3, 32, ARCH, ARCH>>, <<4, 32, ODOO, ARCH_EVAL>>, <<2, 32, ARCH_EVAL, ARCH>>,
   <<32, 2, ARCH, ARCH>>, <<3, 2, ARCH, ARCH>>, <<2, 3, ODOO, ODOO>>}

\* dependencies are recorded, the package and the files are invalidated
NextSameName ==
  \/ \E d \in SameNameDeps : AddDependencyBuilt(d[1], d[2], d[3], d[4])
  \/ \E e \in {2, 3, 32}, s \in BuildSteps : Invalidate(e, s)

SpecSameName == InitSameName /\ [][NextSameName]_vars

\* a file has been evaluated; follow_ref is called on its Variable or Class
\* ----------------------------------------------------------- Name Resolver
\* the offset at which section 1 of a container starts; section 0, the
\* outermost, spans the container
SectionStart == 10

\* the positions the lookups are made at: one before section 1, one in it
Positions == {5, 25}

\* the sections whose region contains the position
sections_at(position) == {0} \cup (IF position >= SectionStart THEN {1} ELSE {})

\* the symbols of S, the most recent section first
RECURSIVE most_recent_first(_)
most_recent_first(S) ==
  IF S = {} THEN <<>>
  ELSE LET x == CHOOSE y \in S : \A z \in S : section(y) >= section(z)
       IN <<x>> \o most_recent_first(S \ {x})

\* get_symbol(name, position) of a File, Package, Class or Function: the
\* children of that name in the sections that contain the position
content_lookup(self, n, position) ==
  most_recent_first({c \in symbols[self] :
                       name(c) = n /\ section(c) \in sections_at(position)})

get_content_symbol(self, n, position) ==
  IF typ(self) \in {"CLASS", "FILE", "PACKAGE", "FUNCTION"}
  THEN content_lookup(self, n, position)
  ELSE <<>>

\* Some(symbol) or None (NoSym); a Namespace answers from the first of its
\* directories that knows the name
get_module_symbol(self, n) ==
  LET found == {c \in module_symbols[self] : name(c) = n}
  IN IF typ(self) \in {"NAMESPACE", "PACKAGE", "ROOT"} /\ found # {}
     THEN CHOOSE c \in found : \A d \in found : directory(c) <= directory(d)
     ELSE NoSym

\* `for fk in symbol_tree_files[1..]`: NoSym when a segment is not found
RECURSIVE walk_files(_, _)
walk_files(sym, files) ==
  IF sym = NoSym \/ files = <<>> THEN sym
  ELSE walk_files(get_module_symbol(sym, Head(files)), Tail(files))

\* `for fk in symbol_tree_content.iter()` of the branch with module segments
RECURSIVE walk_content(_, _, _)
walk_content(iter_sym, content, position) ==
  IF content = <<>> THEN iter_sym
  ELSE LET next_sym == get_content_symbol(iter_sym[1], Head(content), position)
       IN IF next_sym = <<>> THEN <<>>
          ELSE walk_content(next_sym, Tail(content), position)

\* Symbol::get_symbol(&self, tree, position), tree = (files, content)
symbol_get_symbol(self, files, content, position) ==
  IF files # <<>>
  THEN LET m == walk_files(get_module_symbol(self, Head(files)), Tail(files))
       IN IF m = NoSym THEN <<>> ELSE walk_content(<<m>>, content, position)
  ELSE IF content = <<>> THEN <<>>
  ELSE LET iter_sym == get_content_symbol(self, content[1], position)
       IN IF iter_sym = <<>> THEN <<>>
          ELSE IF Len(content) > 1
          THEN \* the loop over content[1..] returns in its first iteration
               get_content_symbol(iter_sym[1], content[2], position)
          ELSE iter_sym

\* the names of the file structure and of the content of the catalogue
FileNames == {name(e) : e \in {d \in Program : ~is_file_content(d) /\ d # Root}}
ContentNames == {name(e) : e \in {d \in Program : is_file_content(d)}}

\* the sequences over S of the lengths in L
SeqsOf(S, L) == UNION {[1..n -> S] : n \in L}

\* the module segments that lead from Root to a symbol, and no segments
FilePaths ==
  {<<>>} \cup {p \in SeqsOf(FileNames, 1..2) : walk_files(Root, p) # NoSym}

ContentPaths == SeqsOf(ContentNames, 0..MaxPath)

\* u32::MAX, the position get_member_symbol looks its own content up at: a
\* position after the start of every section (here the largest 32-bit signed
\* integer, as positions are compared only with section starts)
U32_MAX == 2147483647

\* the framework model a class declares (`_model`), "" for none
class_model(e) == IF name(e) \in {"C1", "C2"} THEN "t" ELSE ""

\* Model::get_symbols: the live classes of the model, in registry order
get_symbols(model) ==
  SetToSeq({c \in Alive : typ(c) = "CLASS" /\ class_model(c) = model})

\* `bases` of a class, in declaration order: C1 derives from K
bases(e) ==
  IF name(e) = "C1"
  THEN SetToSeq({c \in Alive : typ(c) = "CLASS" /\ name(c) = "K"})
  ELSE <<>>

\* the concatenation of the sequences of a sequence
RECURSIVE flatten(_)
flatten(ss) == IF ss = <<>> THEN <<>> ELSE Head(ss) \o flatten(Tail(ss))

\* Symbol::get_member_symbol(name, from_module, prevent_comodel, all), called
\* with from_module = None on a class that lies in a module
RECURSIVE get_member_symbol(_, _, _, _)
get_member_symbol(self, n, prevent_comodel, all) ==
  LET mod_sym == get_module_symbol(self, n)
      content_sym == get_content_symbol(self, n, U32_MAX)
      loc_symbols ==
        IF typ(self) = "CLASS" /\ class_model(self) # "" /\ ~prevent_comodel
        THEN SelectSeq(get_symbols(class_model(self)), LAMBDA c : c # self)
        ELSE <<>>
      attributs == [i \in DOMAIN loc_symbols |->
                      get_member_symbol(loc_symbols[i], n, TRUE, all)]
      of_bases == [i \in DOMAIN bases(self) |->
                     get_member_symbol(bases(self)[i], n, prevent_comodel, all)]
      hits == SelectSeq(of_bases, LAMBDA r : r # <<>>)
  IN IF all
     THEN (IF mod_sym # NoSym THEN <<mod_sym>> ELSE <<>>)
          \o content_sym \o flatten(attributs) \o flatten(of_bases)
     ELSE IF mod_sym # NoSym THEN <<mod_sym>>
     ELSE IF content_sym # <<>> THEN content_sym
     ELSE IF loc_symbols # <<>>
     THEN \* `return attribut` in the first iteration of the comodel loop
          attributs[1]
     ELSE IF hits # <<>> THEN hits[1]
     ELSE <<>>

\* a call that is about to be made: the receiver and the arguments
NoArgs ==
  [step |-> ARCH, walked |-> <<>>, calls |-> {}, files |-> <<>>,
   content |-> <<>>, position |-> 0, name |-> "", prevent_comodel |-> FALSE,
   all |-> FALSE, result |-> <<>>]

GetSymbolCalls ==
  {[NoArgs EXCEPT !.files = f, !.content = c, !.position = p] @@
   [op |-> "call get_symbol", sym |-> self] :
     self \in Program, f \in FilePaths, c \in ContentPaths, p \in Positions}

GetMemberSymbolCalls ==
  {[NoArgs EXCEPT !.name = n, !.prevent_comodel = pc, !.all = al] @@
   [op |-> "call get_member_symbol", sym |-> self] :
     self \in Program, n \in FileNames \cup ContentNames, pc \in BOOLEAN,
     al \in BOOLEAN}

\* self.get_symbol(&(files, content), position) returns
GetSymbol ==
  /\ UNCHANGED <<followVars, status>>
  /\ last.op = "call get_symbol"
  /\ last' = [last EXCEPT
        !.op = "get_symbol",
        !.result = symbol_get_symbol(last.sym, last.files, last.content,
                                     last.position)]
  /\ UNCHANGED <<allocated, parent, symbols, module_symbols, dependencies,
                 dependents, ndeps, rebuild, modules, panicked, vec_to_unload,
                 ref_to_unload, upc, unl>>

\* self.get_member_symbol(name, None, prevent_comodel, all) returns
GetMemberSymbol ==
  /\ UNCHANGED <<followVars, status>>
  /\ last.op = "call get_member_symbol"
  /\ last' = [last EXCEPT
        !.op = "get_member_symbol",
        !.result = get_member_symbol(last.sym, last.name, last.prevent_comodel,
                                     last.all)]
  /\ UNCHANGED <<allocated, parent, symbols, module_symbols, dependencies,
                 dependents, ndeps, rebuild, modules, panicked, vec_to_unload,
                 ref_to_unload, upc, unl>>

\* the tree is built and a name is about to be looked up
InitLookup ==
  /\ BuiltTree
  /\ rebuild = [k \in Steps |-> {}]
  /\ ndeps = 0
  /\ panicked = FALSE
  /\ last \in GetSymbolCalls \cup GetMemberSymbolCalls
  /\ vec_to_unload = <<>>
  /\ ref_to_unload = NoSym
  /\ upc = "idle"
  /\ unl = NoUnload
  /\ dependencies = {}
  /\ dependents = {}
  /\ status = [e \in Sym |-> [k \in Steps |-> "PENDING"]]
  /\ evaluations = [v \in Variables |-> <<>>]
  /\ is_import_variable = {}
  /\ expired = {}
  /\ file_ctx \in {c \in FileContexts : c.external}
  /\ fcall = NoFollow
  /\ results = <<>>
  /\ index = 0
  /\ fpc = "idle"
  /\ flog = NoLog

\* names are looked up in the built tree
NextLookup ==
  \/ GetSymbol
  \/ GetMemberSymbol

SpecLookup == InitLookup /\ [][NextLookup]_vars

\* a graph that is built and at rest, with a call about to be made
InitCall(S, calls) ==
  /\ TreeOf(S)
  /\ rebuild = [k \in Steps |-> {}]
  /\ ndeps = 0
  /\ panicked = FALSE
  /\ last \in calls
  /\ vec_to_unload = <<>>
  /\ ref_to_unload = NoSym
  /\ upc = "idle"
  /\ unl = NoUnload
  /\ dependencies = {}
  /\ dependents = {}
  /\ status = [e \in Sym |-> [k \in Steps |-> "PENDING"]]
  /\ evaluations = [v \in Variables |-> <<>>]
  /\ is_import_variable = {}
  /\ expired = {}
  /\ file_ctx \in {c \in FileContexts : c.external}
  /\ InitFollowIdle

\* ------------------------------------------------------------ infer_name

\* the invocations of infer_name one call may make in the model
MaxInfer == 3

\* a name that no symbol has
Undefined == "zz"

InferNames == ContentNames \cup {"len", Undefined}

\* position: Some(offset) or None, which is read as u32::MAX
InferPositions == Positions \cup {U32_MAX}

\* infer_name(odoo, on_symbol, name, position) is about to be called
InferNameCalls ==
  {[op |-> "infer_name", sym |-> on, on_symbol |-> on, name |-> n,
    position |-> p, invocations |-> 0, builtins |-> 0, returned |-> FALSE,
    result |-> <<>>] :
     on \in Program, n \in InferNames, p \in InferPositions}

\* odoo.get_symbol(&(vec!["builtins"], vec![]), u32::MAX)
odoo_builtins == symbol_get_symbol(Root, <<"builtins">>, <<>>, U32_MAX)

\* one invocation of infer_name: it returns its results, or calls itself on
\* the parent, or calls itself on builtins with position None
InferName ==
  /\ UNCHANGED <<followVars, status>>
  /\ last.op = "infer_name"
  /\ ~last.returned
  /\ last.invocations < MaxInfer
  /\ LET on_symbol == last.on_symbol
         found == get_content_symbol(on_symbol, last.name, last.position)
     IN IF found = <<>> /\ typ(on_symbol) \notin {"FILE", "PACKAGE", "ROOT"}
        THEN last' = [last EXCEPT !.on_symbol = parent[on_symbol],
                                  !.invocations = @ + 1]
        ELSE IF found = <<>>
                /\ (name(on_symbol) # "builtins" \/ typ(on_symbol) # "FILE")
        THEN last' = [last EXCEPT !.on_symbol = odoo_builtins[1],
                                  !.position = U32_MAX,
                                  !.invocations = @ + 1,
                                  !.builtins = @ + 1]
        ELSE last' = [last EXCEPT !.invocations = @ + 1,
                                  !.returned = TRUE,
                                  !.result = found]
  /\ UNCHANGED <<allocated, parent, symbols, module_symbols, dependencies,
                 dependents, ndeps, rebuild, modules, panicked, vec_to_unload,
                 ref_to_unload, upc, unl>>

\* the program and the builtins stubs are loaded and a name is to be inferred
InitInfer ==
  \E kind \in BuiltinsKinds :
    InitCall(Program \cup Builtins(kind), InferNameCalls)

SpecInfer == InitInfer /\ [][InferName]_vars

\* ------------------------------------------------------------ discovery

\* the last component of a path, in pieces: <<"my_", "addons">> is my_addons
DirNames == {<<"addons">>, <<"my_", "addons">>, <<"mod">>}

\* get_tree() of the parent: its module segments
ParentTrees == {<<"odoo">>, <<"odoo", "addons">>, <<"pkg">>}

\* path_str.ends_with("addons")
ends_with_addons(dir_name) == dir_name[Len(dir_name)] = "addons"

\* the variant create_from_path creates, "NONE" when it returns None;
\* source: the path ends with .py or .pyi, init: path/__init__.py or
\* path/__init__.pyi exists, manifest: path/__manifest__.py exists,
\* valid: add_new_module_package returns a module
create_from_path(source, init, manifest, valid, parent_tree, dir_name, require_module) ==
  IF source THEN "FILE"
  ELSE IF init
  THEN IF parent_tree = <<"odoo", "addons">> /\ manifest
       THEN IF ~valid
            THEN IF require_module THEN "NONE" ELSE "PYTHON_PACKAGE"
            ELSE "MODULE"
       ELSE IF require_module THEN "NONE"
       ELSE IF parent_tree = <<"odoo">> /\ ends_with_addons(dir_name)
            THEN "NAMESPACE"
            ELSE "PYTHON_PACKAGE"
  ELSE IF ~require_module THEN "NAMESPACE"
  ELSE "NONE"

\* create_from_path(session, path, parent, require_module) is about to be
\* called on a path of the file system
CreateFromPathCalls ==
  {[op |-> "call create_from_path", source |-> so, init |-> i, manifest |-> m,
    valid |-> v, parent_tree |-> pt, dir_name |-> d, require_module |-> rm,
    created |-> ""] :
     so \in BOOLEAN, i \in BOOLEAN, m \in BOOLEAN, v \in BOOLEAN,
     pt \in ParentTrees, d \in DirNames, rm \in BOOLEAN}

\* create_from_path returns
CreateFromPath ==
  /\ UNCHANGED <<followVars, status>>
  /\ last.op = "call create_from_path"
  /\ last' = [last EXCEPT
        !.op = "create_from_path",
        !.created = create_from_path(last.source, last.init, last.manifest,
                                     last.valid, last.parent_tree,
                                     last.dir_name, last.require_module)]
  /\ UNCHANGED <<allocated, parent, symbols, module_symbols, dependencies,
                 dependents, ndeps, rebuild, modules, panicked, vec_to_unload,
                 ref_to_unload, upc, unl>>

\* only Root exists when the first path is discovered
\* the loop of get_tree over the parents of the symbol: the name of each
\* parent that is not the root and has a parent goes to the front of the
\* content segments or of the module segments
RECURSIVE tree_above(_, _)
tree_above(current, res) ==
  IF typ(current) # "ROOT" /\ parent[current] # NoSym
  THEN tree_above(parent[current],
                  IF is_file_content(current)
                  THEN <<res[1], <<name(current)>> \o res[2]>>
                  ELSE <<<<name(current)>> \o res[1], res[2]>>)
  ELSE res

\* self.get_tree(): the (module segments, content segments) of the symbol
get_tree(self) ==
  LET res == IF is_file_content(self) THEN <<<<>>, <<name(self)>>>>
             ELSE <<<<name(self)>>, <<>>>>
  IN IF typ(self) = "ROOT" \/ parent[self] = NoSym THEN res
     ELSE tree_above(parent[self], res)

\* the sets of symbols of the program that make a tree under the root
AttachedTrees ==
  {S \in SUBSET Program :
     Root \in S /\ \A e \in S : e = Root \/ Catalogue[e].parent \in S}

\* E.get_tree() is about to be called on a symbol E of the tree
GetTreeCalls(S) ==
  {NoArgs @@ [op |-> "call get_tree", sym |-> e, of |-> e] : e \in S \ {Root}}

\* E.get_tree() returns, and Root.get_symbol(tree, u32::MAX) is about to be
\* called with what it returned
GetTree ==
  /\ UNCHANGED <<followVars, status>>
  /\ last.op = "call get_tree"
  /\ last' = [last EXCEPT
        !.op = "call get_symbol",
        !.sym = Root,
        !.files = get_tree(last.sym)[1],
        !.content = get_tree(last.sym)[2],
        !.position = U32_MAX]
  /\ UNCHANGED <<allocated, parent, symbols, module_symbols, dependencies,
                 dependents, ndeps, rebuild, modules, panicked, vec_to_unload,
                 ref_to_unload, upc, unl>>

\* the tree of a symbol is taken and looked up from the root
SpecRoundTrip ==
  (\E S \in AttachedTrees : InitCall(S, GetTreeCalls(S))) /\ [][GetTree \/ GetSymbol]_vars

SpecDiscover ==
  InitCall({Root}, CreateFromPathCalls) /\ [][CreateFromPath]_vars

\* paths are indexed again and symbols unloaded
NextStore ==
  \/ \E e \in Reindexed : CreateAgain(e)
  \/ \E e \in allocated : UnloadStart(e)
  \/ UnloadPush
  \/ UnloadRemove
  \/ UnloadInvalidate

SpecStore == InitTree /\ [][NextStore]_vars

\* the package pkg, the namespace, its module mod and its file mod are
\* unloaded while attached; the namespace holds the module and the file of one
\* name in two directories, the module a variable bound in two sections
NextUnload ==
  \/ \E e \in {2, 6, 7, 11} : parent[e] # NoSym /\ UnloadStart(e)
  \/ UnloadPush
  \/ UnloadRemove
  \/ UnloadInvalidate

SpecUnload == InitCall(Program \cup Sectioned, {NoCall}) /\ [][NextUnload]_vars

\* the thread that runs the loop of unload is not suspended for ever
SpecUnloadFair == SpecUnload /\ WF_vars(UnloadPush \/ UnloadRemove \/ UnloadInvalidate)

\* self.add_new_<variant>(session, name, ..) is about to be called
AddNewCalls ==
  {[op |-> "call add_new", sym |-> self, other |-> e, before |-> {}] :
     self \in Program \cup Compiled, e \in Dispatched}

\* self.add_new_<variant>(session, name, ..) returns or panics
AddNew ==
  /\ UNCHANGED <<followVars, status>>
  /\ last.op = "call add_new"
  /\ LET self == last.sym
         e == last.other
     IN /\ allocated' = allocated \cup {e}
        /\ CASE typ(e) = "FILE" -> add_new_file(self, e)
             [] typ(e) = "PACKAGE" /\ Catalogue[e].module -> add_new_module_package(self, e)
             [] typ(e) = "PACKAGE" /\ ~Catalogue[e].module -> add_new_python_package(self, e)
             [] typ(e) = "NAMESPACE" -> add_new_namespace(self, e)
             [] typ(e) = "COMPILED" -> add_new_compiled(self, e)
             [] typ(e) = "VARIABLE" -> add_new_variable(self, e)
             [] typ(e) = "FUNCTION" -> add_new_function(self, e)
             [] typ(e) = "CLASS" -> add_new_class(self, e)
        /\ last' = [last EXCEPT !.op = "add_new", !.before = Children(self)]
  /\ UNCHANGED <<dependencies, dependents, ndeps, rebuild, modules,
                 vec_to_unload, ref_to_unload, upc, unl>>

SpecDispatch ==
  InitCall(Program \cup Compiled, AddNewCalls) /\ [][AddNew]_vars

\* ------------------------------------------------------------ the stages
\* the dependencies a full build of the catalogue records: sub imports from
\* its package pkg, pkg imports sub, b imports sub and the module mod, as
\* <<a, step, level, b>>
BuildEdges ==
  {<<3, ARCH, ARCH, 2>>, <<2, ARCH, ARCH, 3>>, <<5, ARCH_EVAL, ARCH, 3>>,
   <<5, ODOO, ARCH_EVAL, 7>>, <<4, VALIDATION, ODOO, 3>>}

\* notify_file_changed(path): invalidate(file_of(path), ARCH), then the file
\* is enqueued for ARCH rebuild
NotifyFileChanged(f) ==
  /\ UNCHANGED followVars
  /\ upc = "idle" /\ ~panicked
  /\ f \in Alive /\ typ(f) \in {"FILE", "PACKAGE"}
  /\ Cardinality(UNION {rebuild[k] : k \in Steps}) < MaxPending
  /\ LET calls == invalidate_calls(f, ARCH) \cup {<<f, ARCH, ARCH, f>>}
     IN /\ rebuild' = add_to_rebuild(calls)
        /\ status' = add_to_rebuild_status(calls)
        /\ last' = [op |-> "notify_file_changed", sym |-> f, step |-> ARCH,
                    walked |-> invalidate_walk(<<f>>, <<>>), calls |-> calls]
  /\ unl' = NoUnload
  /\ UNCHANGED <<allocated, parent, symbols, module_symbols, dependencies,
                 dependents, ndeps, modules, panicked, vec_to_unload,
                 ref_to_unload, upc>>

\* every dependency the symbol recorded for the step has reached its level
dependencies_ready(f, step) ==
  \A d \in dependencies :
     (d[1] = f /\ d[2] = step /\ d[4] \in Alive)
        => build_status(status[d[4]], d[3]) = "DONE"

\* the worker takes f from the worklist of the step and starts the stage
StartStage(f, step) ==
  /\ UNCHANGED followVars
  /\ upc = "idle" /\ ~panicked
  /\ f \in Alive /\ has_build_status(typ(f))
  /\ f \in rebuild[step]
  /\ build_status(status[f], step) = "PENDING"
  /\ \A k \in Steps : k < step => build_status(status[f], k) = "DONE"
  /\ dependencies_ready(f, step)
  /\ status' = [status EXCEPT ![f] = set_build_status(@, step, "IN_PROGRESS")]
  /\ last' = NoCall
  /\ unl' = NoUnload
  /\ UNCHANGED <<allocated, parent, symbols, module_symbols, dependencies,
                 dependents, ndeps, rebuild, modules, panicked, vec_to_unload,
                 ref_to_unload, upc>>

\* the stage of f ends: it is DONE, and f goes on to the worklist of the
\* next stage
FinishStage(f, step) ==
  /\ UNCHANGED followVars
  /\ upc = "idle" /\ ~panicked
  /\ f \in Alive /\ has_build_status(typ(f))
  /\ build_status(status[f], step) = "IN_PROGRESS"
  /\ status' = [status EXCEPT ![f] = set_build_status(@, step, "DONE")]
  /\ rebuild' = [k \in Steps |->
                   IF k = step THEN rebuild[k] \ {f}
                   ELSE IF k = step + 1 THEN rebuild[k] \cup {f}
                   ELSE rebuild[k]]
  /\ last' = NoCall
  /\ unl' = NoUnload
  /\ UNCHANGED <<allocated, parent, symbols, module_symbols, dependencies,
                 dependents, ndeps, modules, panicked, vec_to_unload,
                 ref_to_unload, upc>>

\* the catalogue is fully built: every stage of every symbol is DONE
InitBuild ==
  /\ BuiltTree
  /\ InitIdle
  /\ dependencies = BuildEdges
  /\ dependents = {<<d[4], d[3], d[2], d[1]>> : d \in dependencies}
  /\ status = [e \in Sym |-> [k \in Steps |->
                 IF has_build_status(typ(e)) THEN "DONE" ELSE "PENDING"]]
  /\ evaluations = [v \in Variables |-> <<>>]
  /\ is_import_variable = {}
  /\ expired = {}
  /\ file_ctx \in {c \in FileContexts : c.external}
  /\ InitFollowIdle

\* files change, the worker re-runs the stages
NextBuild ==
  \/ \E f \in allocated : NotifyFileChanged(f)
  \/ \E f \in allocated, k \in Steps : StartStage(f, k)
  \/ \E f \in allocated, k \in Steps : FinishStage(f, k)

SpecBuild == InitBuild /\ [][NextBuild]_vars

\* on the built catalogue, symbols are removed from their parent or unloaded,
\* and unload is called on the root and on references kept to the symbols
\* removed or unloaded
NextUnloadHeld ==
  \/ \E e \in {2, 7} : RemoveSymbol(e)
  \/ \E e \in {Root, 3, 7} : UnloadStart(e)
  \/ \E e \in {2, 3, 7} : UnloadHeld(e)
  \/ UnloadPush
  \/ UnloadRemove
  \/ UnloadInvalidate

SpecUnloadHeld == InitBuild /\ [][NextUnloadHeld]_vars

\* changes are signalled on the symbols of the fully built catalogue
SpecInvalidateBuilt == InitBuild /\ [][\E e \in allocated, s \in BuildSteps : Invalidate(e, s)]_vars

InitFollow ==
  /\ InitGraph
  /\ evaluations \in EvalGraphs
  /\ is_import_variable \in SUBSET {"a"}
  /\ expired \in {{}, {"C"}}
  /\ file_ctx \in FileContexts
  /\ InitFollowIdle

NextFollow ==
  \/ \E s \in {"y", "C"}, sot \in BOOLEAN, sov \in BOOLEAN : FollowStart(s, sot, sov)
  \/ FollowStep
  \/ FollowReturn

SpecFollow == InitFollow /\ [][NextFollow]_vars

\* the thread that runs follow_ref is not suspended for ever
SpecFollowFair == SpecFollow /\ WF_vars(NextFollow)

\* Symbol::next_refs(session, symbol, ..) is called on a live symbol
NextRefs(symbol) ==
  /\ last = NoCall
  /\ symbol \notin expired
  /\ last' = [op |-> "next_refs", symbol |-> symbol, result |-> next_refs(symbol)]
  /\ UNCHANGED <<allocated, parent, symbols, module_symbols, dependencies,
                 dependents, ndeps, rebuild, modules, panicked, vec_to_unload,
                 ref_to_unload, upc, unl, status>>
  /\ UNCHANGED followVars

SpecRefs == InitFollow /\ [][\E symbol \in EvalSym : NextRefs(symbol)]_vars

\* next_refs is called on a symbol of the file, and follow_ref runs on it,
\* while evaluation targets of the file have been unloaded
SpecStale == InitFollow /\ [][NextFollow \/ \E symbol \in EvalSym : NextRefs(symbol)]_vars

\* the file of the Variables is being evaluated: its ARCH_EVAL builder is
\* running, started from the worklist once ARCH was done, or by follow_ref
\* while ARCH was pending, and the builder calls follow_ref
BusyContexts ==
  {[external |-> FALSE,
    status |-> [k \in Steps |-> CASE k = ARCH -> a
                                  [] k = ARCH_EVAL -> "IN_PROGRESS"
                                  [] OTHER -> "PENDING"],
    in_rebuild |-> TRUE] : a \in {"PENDING", "DONE"}}

InitFollowBusy ==
  /\ InitGraph
  /\ evaluations \in EvalGraphs
  /\ is_import_variable \in SUBSET {"a"}
  /\ expired \in {{}, {"C"}}
  /\ file_ctx \in BusyContexts
  /\ InitFollowIdle

SpecFollowBusy == InitFollowBusy /\ [][NextFollow]_vars

\* ----------------------------------------------------------------- claims
\* the symbols above e on the parent chain
RECURSIVE StrictAncestors(_)
StrictAncestors(e) ==
  IF parent[e] = NoSym THEN {}
  ELSE {parent[e]} \cup StrictAncestors(parent[e])

InAnyMap(e) == \E p \in Sym : e \in symbols[p] \cup module_symbols[p]

\* C1: for live files or packages A and B and stages s, l, B is recorded in
\* A.dependencies[s][l] exactly when A is recorded in B.dependents[l][s],
\* whatever add_dependency, remove_symbol and unload calls were made.
C1_DependencySymmetry ==
  LET live == Alive IN
    /\ \A t \in dependencies :
         (t[1] \in live /\ t[4] \in live) =>
           <<t[4], t[3], t[2], t[1]>> \in dependents
    /\ \A t \in dependents :
         (t[1] \in live /\ t[4] \in live) =>
           <<t[4], t[3], t[2], t[1]>> \in dependencies

\* an unload has returned and an edge between two live symbols remains
C1_Witness ==
  /\ unl.done
  /\ \E t \in dependencies : t[1] \in Alive /\ t[4] \in Alive

\* C2 as stated: invalidate(X, ARCH) never enqueues a dependent that is an
\* ancestor of the walked symbol whose dependents are being processed.
C2_NoAncestorEnqueued ==
  (last.op = "invalidate" /\ last.step = ARCH) =>
    \A c \in last.calls : c[4] \notin StrictAncestors(c[1])

\* C2 amended: invalidate(X, ARCH) never enqueues a dependent that is the
\* walked symbol whose dependents are being processed, or a descendant of it.
C2_NoDescendantEnqueued ==
  (last.op = "invalidate" /\ last.step = ARCH) =>
    \A c \in last.calls : c[4] # c[1] /\ c[1] \notin StrictAncestors(c[4])

\* invalidate(X, ARCH) walked a symbol that has a live dependent below it
C2_Witness ==
  /\ last.op = "invalidate" /\ last.step = ARCH
  /\ \E i \in DOMAIN last.walked : \E t \in dependents :
       /\ t[1] = last.walked[i]
       /\ t[4] \in Alive
       /\ last.walked[i] \in StrictAncestors(t[4])

\* C3: invalidate(X, s) enqueues D on the worklist of stage k exactly when D
\* is a live member of dependents[l][k] of a walked symbol for a level l of
\* ARCH, ARCH_EVAL, ODOO with l >= s and k >= l, and D is neither the walked
\* symbol nor below it; every dependent enqueued is on the worklist.
C3_EnqueueLevels ==
  (last.op = "invalidate" /\ last.step \in Steps) =>
    /\ {<<c[3], c[4]>> : c \in last.calls} =
         {kd \in Steps \X Sym :
            \E i \in DOMAIN last.walked, l \in Levels :
              /\ l >= last.step /\ kd[1] >= l
              /\ <<last.walked[i], l, kd[1], kd[2]>> \in dependents
              /\ kd[2] \in Alive
              /\ kd[2] # last.walked[i]
              /\ last.walked[i] \notin StrictAncestors(kd[2])}
    /\ \A c \in last.calls : c[4] \in rebuild[c[3]]

\* invalidate(X, ARCH_EVAL) walked a symbol with a live ARCH-level dependent
\* outside its subtree
C3_Witness ==
  /\ last.op = "invalidate" /\ last.step = ARCH_EVAL
  /\ \E i \in DOMAIN last.walked : \E t \in dependents :
       /\ t[1] = last.walked[i] /\ t[2] = ARCH
       /\ t[4] \in Alive
       /\ t[4] # last.walked[i]
       /\ last.walked[i] \notin StrictAncestors(t[4])

\* C4: invalidate on a Package, Namespace or Root walks every File and
\* Package below it through the module-symbol maps exactly once, applies to
\* each the propagation of a direct call, and ends.
C4_WalkCoversModules ==
  (last.op = "invalidate" /\ has_modules(last.sym)) =>
    /\ \A i, j \in DOMAIN last.walked : last.walked[i] = last.walked[j] => i = j
    /\ {e \in {last.walked[i] : i \in DOMAIN last.walked} :
          typ(e) \in {"FILE", "PACKAGE"}}
         = {e \in Alive : /\ typ(e) \in {"FILE", "PACKAGE"}
                          /\ (e = last.sym \/ last.sym \in StrictAncestors(e))}
    /\ last.calls = UNION {invalidate_one(e, last.step) :
                             e \in {d \in Alive :
                                      d = last.sym \/ last.sym \in StrictAncestors(d)}}

\* an invalidate on the root or a namespace enqueued the dependent of a
\* package found in a namespace directory, two levels or more below
C4_Witness ==
  /\ last.op = "invalidate" /\ has_modules(last.sym)
  /\ \E c \in last.calls :
       /\ typ(parent[c[1]]) = "NAMESPACE"
       /\ last.sym \in StrictAncestors(parent[c[1]])

\* C5: after unload(X) returns, X is held by no children map, and no weak
\* reference to X (dependency and dependent sets, parent pointers, module
\* registry) resolves to a live symbol.
C5_UnloadedIsGone ==
  unl.done =>
    /\ ~InAnyMap(unl.root)
    /\ unl.root \notin Alive
    /\ \A r \in modules : r[2] = unl.root => r[2] \notin Alive

\* unload has returned for a symbol that other symbols depended on
C5_Witness ==
  /\ unl.done
  /\ \E t \in dependents : t[1] = unl.root /\ t[4] \in Alive

\* C6: unload(X) removes the subtree of X bottom-up: the children of a
\* symbol are detached before the symbol, and when the call returns every
\* symbol of the subtree is detached from its parent.
C6_BottomUp ==
  /\ upc = "removed" => \A c \in unl.sub : parent[c] # ref_to_unload
  /\ unl.done => \A e \in unl.sub : parent[e] = NoSym /\ ~InAnyMap(e)

\* C7: when an unloaded File or Package E is invalidated at ARCH, E is
\* already out of its parent's map, the invalidate runs for every File and
\* Package unload removes, and it enqueues the live dependents of E outside
\* E on the worklists of their stages.
C7_InvalidateAfterDetach ==
  /\ upc = "removed" => ~InAnyMap(ref_to_unload)
  /\ (upc \in {"idle", "loop"} /\ unl.root # NoSym /\ ~panicked) =>
       unl.invalidated = {e \in unl.detached : typ(e) \in {"FILE", "PACKAGE"}}
  /\ last.op = "unload" =>
       /\ {<<c[3], c[4]>> : c \in last.calls} =
            {kd \in Steps \X Sym :
               \E l \in Levels :
                 /\ <<last.sym, l, kd[1], kd[2]>> \in dependents
                 /\ kd[2] \in Alive
                 /\ kd[2] # last.sym
                 /\ last.sym \notin StrictAncestors(kd[2])}
       /\ \A c \in last.calls : c[4] \in rebuild[c[3]]

\* a file with an ARCH-on-ARCH dependency on the unloaded file is on the
\* ARCH worklist
C7_Witness ==
  /\ last.op = "unload"
  /\ \E d \in Alive :
       /\ <<last.sym, ARCH, ARCH, d>> \in dependents
       /\ typ(d) = "FILE"
       /\ d \in rebuild[ARCH]

\* the symbols reached from S through live evaluations, S included
RECURSIVE EvalReach(_)
EvalReach(S) ==
  LET T == S \cup UNION {{next_refs(v)[i][1] : i \in DOMAIN next_refs(v)} :
                          v \in S}
  IN IF T = S THEN S ELSE EvalReach(T)

\* no Variable is reached from its own evaluations
EvalAcyclic ==
  \A v \in Variables :
    v \notin EvalReach({next_refs(v)[i][1] : i \in DOMAIN next_refs(v)})

\* the live symbols reached from sym that are not expanded further
FinalReferents(sym) ==
  {e \in EvalReach({sym}) :
     /\ e \notin expired
     /\ (sym_typ(e) # "VARIABLE" \/ next_refs(e) = <<>>)}

ResultSyms == {results[i][1] : i \in DOMAIN results}

\* C8: follow_ref terminates on every finite evaluation graph, cycles of
\* Variables included: every call returns (or leaves the bounds explored).
C8_Terminates == <>(fpc \in {"done", "cut"})

\* C9: with both stop flags false and an acyclic evaluation graph, the
\* result of follow_ref is exactly the set of final referents reached from
\* sym, and no Variable that was expanded remains in it.
C9_ClosedSet ==
  (/\ fpc = "done"
   /\ ~fcall.stop_on_type /\ ~fcall.stop_on_value
   /\ EvalAcyclic
   /\ ~flog.eval_arch) =>
    /\ ResultSyms = FinalReferents(fcall.symbol)
    /\ ResultSyms \cap flog.expanded = {}

\* the conditions under which a Variable element is kept
follow_keeps(sym, instance) ==
  \/ fcall.stop_on_type /\ ~instance /\ sym \notin is_import_variable
  \/ /\ fcall.stop_on_value
     /\ Len(evaluations[sym]) = 1
     /\ evaluations[sym][1].value

\* C10: a Variable element the stop flags keep is in the final result, and
\* every other Variable with a live evaluation has been replaced by its
\* next_refs.
C10_KeepOrExpand ==
  fpc = "done" =>
    /\ \A r \in flog.kept : \E i \in DOMAIN results : results[i] = r
    /\ \A i \in DOMAIN results :
         (/\ results[i][1] \notin expired
          /\ sym_typ(results[i][1]) = "VARIABLE"
          /\ next_refs(results[i][1]) # <<>>) =>
           follow_keeps(results[i][1], results[i][2])

\* follow_ref has returned for a Variable whose only evaluation points to a
\* symbol that no longer upgrades
OnlyTargetExpired ==
  /\ fpc = "done"
  /\ sym_typ(fcall.symbol) = "VARIABLE"
  /\ Len(evaluations[fcall.symbol]) = 1
  /\ evaluations[fcall.symbol][1].symbol \in expired

AddDependencyOnFiles ==
  /\ last.op = "add_dependency"
  /\ typ(last.sym) \in {"FILE", "PACKAGE"}
  /\ typ(last.other) \in {"FILE", "PACKAGE"}

\* C12: add_dependency(A, B, s, l) is accepted exactly for the stage pairs
\* with l <= s and l # VALIDATION, (ARCH_EVAL, ARCH_EVAL) included; every
\* other pair, and any pair with SYNTAX, ends in an error and adds no edge
\* on either side.
C12_AllowedPairs ==
  AddDependencyOnFiles =>
    /\ ~panicked <=> (/\ last.step \in Steps /\ last.level \in Steps
                      /\ last.level <= last.step
                      /\ last.level # VALIDATION)
    /\ panicked => dependencies = last.before[1] /\ dependents = last.before[2]
    /\ ~panicked =>
         /\ <<last.sym, last.step, last.level, last.other>> \in dependencies
         /\ <<last.other, last.level, last.step, last.sym>> \in dependents


\* the operations that read or write dependency edges
EdgeOps ==
  EdgeAccessors \cup {"get_dependencies", "get_all_dependencies", "get_dependents"}

\* the last operation touched the edges of an entity that is no File or Package
EdgeOpOnNonFile ==
  \/ /\ last.op \in EdgeOps
     /\ typ(last.sym) \notin {"FILE", "PACKAGE"}
  \/ /\ last.op = "add_dependency"
     /\ \/ typ(last.sym) \notin {"FILE", "PACKAGE"}
        \/ typ(last.other) \notin {"FILE", "PACKAGE"}

\* C13: every operation that reads or writes dependency edges (the four
\* accessors, the three getters, add_dependency on either argument) fails
\* when it is applied to an entity that is neither a File nor a Package
C13_OnlyFilesCarryEdges == EdgeOpOnNonFile => panicked


\* the last operation was an add_dependency call that was accepted
AddDependencyAccepted == last.op = "add_dependency" /\ ~panicked

\* the edge of the last add_dependency call, as A.dependencies holds it
LastDependency == <<last.sym, last.step, last.level, last.other>>

\* the edge of the last add_dependency call, as B.dependents holds it
LastDependent == <<last.other, last.level, last.step, last.sym>>

\* C14: add_dependency is idempotent: an accepted call adds its edge to
\* A.dependencies[s][l] and to B.dependents[l][s] and changes nothing else,
\* and a call whose edge is already there leaves both sides as they were
C14_Idempotent ==
  AddDependencyAccepted =>
    /\ dependencies = last.before[1] \cup {LastDependency}
    /\ dependents = last.before[2] \cup {LastDependent}
    /\ (LastDependency \in last.before[1] /\ LastDependent \in last.before[2])
          => dependencies = last.before[1] /\ dependents = last.before[2]

\* an accepted add_dependency call was repeated with the same arguments
C14_Witness ==
  /\ AddDependencyAccepted
  /\ LastDependency \in last.before[1]
  /\ LastDependent \in last.before[2]


\* the last operation was parent.remove_symbol(E) and it returned
RemoveSymbolReturned == last.op = "remove_symbol" /\ ~panicked

\* C16: remove_symbol(parent, E) removes exactly E: E has no parent and is
\* not listed by the parent any more, and every other child the parent
\* listed is still listed, the children with the name of E in another
\* section or in another directory of a Namespace included
C16_RemovesExactlyOne ==
  RemoveSymbolReturned =>
    /\ parent[last.sym] = NoSym
    /\ last.sym \notin Children(last.other)
    /\ \A c \in last.before \ {last.sym} : c \in Children(last.other)

\* C15: between calls, an entity E has parent pointer P if and only if P
\* lists E among its children, the content symbols in the content map and
\* the file structure symbols in the module map
C15_ParentMatchesChildren ==
  (upc = "idle" /\ ~panicked) =>
    \A E \in allocated, P \in allocated :
       parent[E] = P <=>
         IF is_file_content(E) THEN E \in symbols[P] ELSE E \in module_symbols[P]


\* a later stage of the record of status fields is DONE only if every
\* earlier stage is
StagesInOrder(f) ==
  \A k \in Steps, j \in Steps : (j < k /\ f[k] = "DONE") => f[j] = "DONE"

\* C17: a later stage of a File or Package is DONE only if every earlier
\* stage of it is DONE
C17_StagesInOrder == StagesInOrder(file_ctx.status)


\* C18: in every state, a stage s of X that is DONE has every live entity B
\* of X.dependencies[s][l] DONE at l
C18_DoneOnDoneDependencies ==
  \A d \in dependencies :
     (/\ d[1] \in Alive /\ d[4] \in Alive
      /\ status[d[1]][d[2]] = "DONE")
        => status[d[4]][d[3]] = "DONE"


\* the module segments from Root to the symbol
RECURSIVE module_path(_)
module_path(e) ==
  IF e = Root \/ parent[e] = NoSym THEN <<>>
  ELSE Append(module_path(parent[e]), name(e))

\* E.get_symbol(([], content), position) was called on a symbol E that
\* Root reaches by the module segments m, with at least one content segment
LookupFromEntity ==
  /\ last.op = "get_symbol"
  /\ last.files = <<>>
  /\ last.content # <<>>
  /\ ~is_file_content(last.sym) /\ last.sym # Root
  /\ symbol_get_symbol(Root, module_path(last.sym), <<>>, last.position)
       = <<last.sym>>

\* C19: get_symbol descends every content segment: called on E with the
\* content segments c1..cn it returns what Root returns for the module
\* segments of E followed by c1..cn, for every n >= 1
C19_DescendsEverySegment ==
  LookupFromEntity =>
    last.result = symbol_get_symbol(Root, module_path(last.sym), last.content,
                                    last.position)


\* get_member_symbol(name, None, prevent_comodel, all = false) has returned
MemberLookupFirst == last.op = "get_member_symbol" /\ ~last.all

\* (c) and (d): the results of the classes that share the model, in registry
\* order, unless prevent_comodel, then those of the base classes
RECURSIVE first_hit(_, _, _)
first_hit(self, n, prevent_comodel) ==
  LET mod_sym == get_module_symbol(self, n)
      content_sym == get_content_symbol(self, n, U32_MAX)
      comodel ==
        IF typ(self) = "CLASS" /\ class_model(self) # "" /\ ~prevent_comodel
        THEN SelectSeq(get_symbols(class_model(self)), LAMBDA c : c # self)
        ELSE <<>>
      of_comodel == [i \in DOMAIN comodel |-> first_hit(comodel[i], n, TRUE)]
      of_bases == [i \in DOMAIN bases(self) |->
                     first_hit(bases(self)[i], n, prevent_comodel)]
      hits == SelectSeq(of_comodel \o of_bases, LAMBDA r : r # <<>>)
  IN IF mod_sym # NoSym THEN <<mod_sym>>
     ELSE IF content_sym # <<>> THEN content_sym
     ELSE IF hits # <<>> THEN hits[1]
     ELSE <<>>

\* C20: with all = false get_member_symbol returns the first non-empty hit
\* in the order module symbol, own content symbol, classes of the same
\* model unless prevent_comodel, base classes; it returns nothing only when
\* the call with all = true returns nothing
C20_FirstHit ==
  MemberLookupFirst =>
    /\ last.result = first_hit(last.sym, last.name, last.prevent_comodel)
    /\ last.result = <<>> =>
         get_member_symbol(last.sym, last.name, last.prevent_comodel, TRUE) = <<>>


\* the first non-empty get_content_symbol(name, position) from `on` through
\* its parents up to the nearest File, Package or Root
RECURSIVE scope_hit(_, _, _)
scope_hit(on, n, position) ==
  LET here == get_content_symbol(on, n, position)
  IN IF here # <<>> \/ typ(on) \in {"FILE", "PACKAGE", "ROOT"}
     THEN here
     ELSE scope_hit(parent[on], n, position)

\* what infer_name(on, name, position) is to return
infer_name_result(on, n, position) ==
  IF scope_hit(on, n, position) # <<>>
  THEN scope_hit(on, n, position)
  ELSE get_content_symbol(odoo_builtins[1], n, U32_MAX)

\* C21: infer_name returns the first non-empty get_content_symbol result
\* from `on` up to the nearest File, Package or Root; only when all are
\* empty it consults the builtins entity, once, and then returns that
\* result, whatever the kind of the builtins entity
C21_ScopeThenBuiltinsOnce ==
  last.op = "infer_name" =>
    /\ last.builtins <= 1
    /\ last.builtins = 1 => scope_hit(last.sym, last.name, last.position) = <<>>
    /\ last.returned =>
         last.result = infer_name_result(last.sym, last.name, last.position)


\* the variant the discovery policy prescribes
discovery_policy(source, init, manifest, valid, parent_tree, dir_name, require_module) ==
  IF source THEN "FILE"
  ELSE IF init
  THEN IF parent_tree = <<"odoo", "addons">> /\ manifest
       THEN IF valid THEN "MODULE"
            ELSE IF require_module THEN "NONE" ELSE "PYTHON_PACKAGE"
       ELSE IF parent_tree = <<"odoo">> /\ dir_name = <<"addons">>
       THEN "NAMESPACE"
       ELSE "PYTHON_PACKAGE"
  ELSE IF require_module THEN "NONE"
  ELSE "NAMESPACE"

\* C22: for every combination of source extension, init file, manifest,
\* validity of the manifest, path of the parent, directory name and
\* require_module, create_from_path creates the variant that the discovery
\* policy prescribes
C22_DiscoveryPolicy ==
  last.op = "create_from_path" =>
    last.created = discovery_policy(last.source, last.init, last.manifest,
                                    last.valid, last.parent_tree,
                                    last.dir_name, last.require_module)


\* create_from_path has returned for a path that the parent already listed
IndexedAgain ==
  /\ last.op = "create_from_path"
  /\ ~panicked
  /\ last.previous # NoSym

\* C23: create_from_path called twice with the same path and parent returns
\* the same entity both times, and the parent holds a single child for the
\* path
C23_SameEntityTwice ==
  IndexedAgain =>
    /\ last.sym = last.previous
    /\ Cardinality({c \in Children(last.other) :
                      name(c) = name(last.sym)
                      /\ directory(c) = directory(last.sym)}) = 1

\* C24: add_new_namespace for a name under which the parent already lists a
\* Namespace returns that Namespace, whose children of the other
\* directories are preserved, and creates no second Namespace
C24_NamespaceReused ==
  (IndexedAgain /\ typ(last.sym) = "NAMESPACE"
                /\ typ(last.previous) = "NAMESPACE") =>
    /\ last.sym = last.previous
    /\ last.previous \in Children(last.other)
    /\ last.previous_children \subseteq Children(last.previous)
    /\ Cardinality({c \in Alive : typ(c) = "NAMESPACE"
                                  /\ name(c) = name(last.sym)}) = 1

\* attached: reached from Root through the children maps
Attached == Closure({Root})

\* C25: between the calls of create_from_path and unload, every live
\* attached Module is in the module registry under its dir_name, and no
\* entry of the registry resolves to a Module that is not attached
C25_RegistryMatchesModules ==
  (upc = "idle" /\ ~panicked) =>
    LET attached == Attached
        live == Alive
    IN /\ \A e \in attached :
            (typ(e) = "PACKAGE" /\ Catalogue[e].module) =>
               <<name(e), e>> \in modules
       /\ \A r \in modules : r[2] \in live => r[2] \in attached


\* the container dispatch table: the variants a parent may contain
may_contain(parent_typ) ==
  CASE parent_typ \in {"ROOT", "NAMESPACE"} ->
         {"PACKAGE", "NAMESPACE", "FILE", "COMPILED"}
    [] parent_typ = "PACKAGE" ->
         {"PACKAGE", "NAMESPACE", "FILE", "COMPILED",
          "CLASS", "FUNCTION", "VARIABLE"}
    [] parent_typ \in {"FILE", "CLASS", "FUNCTION"} ->
         {"CLASS", "FUNCTION", "VARIABLE"}
    [] parent_typ = "COMPILED" -> {"COMPILED"}
    [] OTHER -> {}

OwnChildDependencies(file) ==
  {d \in dependencies :
     /\ d[4] = file
     /\ d[1] = parent[file]
     /\ typ(d[1]) = "PACKAGE"
     /\ d[1] \in Alive}

\* invalidate(sub, ARCH) has returned for a file sub on which its own
\* package depends
InvalidatedOwnChild ==
  /\ last.op = "invalidate" /\ last.step = ARCH
  /\ typ(last.sym) = "FILE"
  /\ OwnChildDependencies(last.sym) # {}

\* C27: when a package depends on its own child file sub, invalidate(sub,
\* ARCH) enqueues the package on the worklist of the dependent stage and
\* enqueues sub on no worklist
C27_AncestorSafe ==
  InvalidatedOwnChild =>
    /\ \A d \in OwnChildDependencies(last.sym) :
         /\ <<last.sym, d[3], d[2], d[1]>> \in last.calls
         /\ d[1] \in rebuild[d[2]]
    /\ \A c \in last.calls : c[4] # last.sym

\* invalidate(sub, ARCH) has enqueued the package of sub
C27_Witness ==
  /\ InvalidatedOwnChild
  /\ <<last.sym, ARCH, ARCH, parent[last.sym]>> \in last.calls
  /\ parent[last.sym] \in rebuild[ARCH]


\* C28: next_refs applied to a symbol that is not a Variable returns the
\* list of one element, the symbol itself
C28_NonVariableGivesSelf ==
  (last.op = "next_refs" /\ sym_typ(last.symbol) # "VARIABLE") =>
    /\ Len(last.result) = 1
    /\ last.result[1][1] = last.symbol

\* this step of follow_ref is the expansion of a Variable: the element at
\* index is a live Variable that the stop flags do not keep
ExpandsVariable ==
  /\ fpc = "loop" /\ index < Len(results)
  /\ LET sym == results[index + 1][1]
         instance == results[index + 1][2]
     IN /\ sym \notin expired
        /\ sym_typ(sym) = "VARIABLE"
        /\ ~follow_keeps(sym, instance)

\* the ARCH_EVAL builder has run on the file in this step
BuilderRan == file_ctx' # file_ctx

\* C29: follow_ref runs the ARCH_EVAL builder on the file of a referent
\* Variable exactly when the Variable has no evaluations and the ARCH_EVAL
\* status of the file is PENDING, and the builder has ended when the
\* evaluations of the Variable are read
C29_EvalWhenPending ==
  [][ExpandsVariable =>
       (BuilderRan <=>
          /\ evaluations[results[index + 1][1]] = <<>>
          /\ build_status(file_ctx.status, ARCH_EVAL) = "PENDING")]_vars

\* C30: follow_ref does not start the ARCH_EVAL builder on a file whose
\* ARCH_EVAL status is IN_PROGRESS, whatever the status of its other
\* stages: the evaluations are read as they are
C30_InProgressSkipped ==
  [][build_status(file_ctx.status, ARCH_EVAL) = "IN_PROGRESS" =>
       (file_ctx' = file_ctx /\ evaluations' = evaluations)]_vars

\* the symbol graph: the tree, the dependency edges, the worklists, the build
\* statuses and the module registry
symbol_graph == <<allocated, parent, symbols, module_symbols, dependencies, dependents, rebuild, status, modules>>

\* C31: a structural-misuse call (add_dependency with a forbidden stage pair
\* or on a non-file entity, an edge accessor on a kind that has none) aborts
\* only that operation: the call that panics leaves the symbol graph as it
\* was, and after it the worker can still take a next operation
C31_MisuseAbortsOperationOnly ==
  /\ [][(~panicked /\ panicked') => symbol_graph' = symbol_graph]_vars
  /\ [](panicked => ENABLED NextDeps)

\* the indices of the evaluations of v whose target still upgrades
live_evaluations(v) == {i \in DOMAIN evaluations[v] : evaluations[v][i].symbol \notin expired}

\* refs is the list of the live targets of the evaluations of v, in the order
\* of the evaluations
live_targets_in_order(v, refs) ==
  /\ Len(refs) = Cardinality(live_evaluations(v))
  /\ \A k \in 1..Len(refs) :
       \E j \in live_evaluations(v) :
          /\ Cardinality({i \in live_evaluations(v) : i <= j}) = k
          /\ refs[k] = <<evaluations[v][j].symbol, evaluations[v][j].instance>>

\* C32: a stale weak reference is never fatal: next_refs on a Variable
\* returns, in evaluation order, exactly the targets of its evaluations that
\* are still live, and neither next_refs nor follow_ref raises an error or
\* hands out an unloaded target when some or all targets have been unloaded
C32_StaleNeverFatal ==
  /\ ~panicked
  /\ (last.op = "next_refs" /\ sym_typ(last.symbol) = "VARIABLE" /\ fpc = "idle") =>
        live_targets_in_order(last.symbol, last.result)
  /\ (fpc = "loop" /\ index = 0 /\ flog = NoLog) =>
        live_targets_in_order(fcall.symbol, results)
  /\ fpc # "idle" => \A i \in DOMAIN results : results[i][1] \notin expired

\* next_refs was called on y and follow_ref(y) has returned, one target of y
\* being unloaded and another live
C32_Witness ==
  /\ fpc = "done" /\ fcall.symbol = "y"
  /\ last.op = "next_refs" /\ last.symbol = "y"
  /\ \E i \in DOMAIN evaluations["y"] : evaluations["y"][i].symbol \in expired
  /\ \E i \in DOMAIN evaluations["y"] : evaluations["y"][i].symbol \notin expired
  /\ results # <<>>

\* the add_to_* calls invalidate leaves out: the live dependents of a walked
\* symbol, at the levels and indexes the stage of the call handles, that are
\* not in the calls
skipped_dependents ==
  {t \in dependents :
     /\ \E i \in DOMAIN last.walked : last.walked[i] = t[1]
     /\ t[4] \in Alive
     /\ t[2] \in Levels /\ t[2] >= last.step /\ t[3] >= t[2]
     /\ t \notin last.calls}

\* C33: the ancestor test of invalidate compares entities by identity: a
\* dependent is skipped only when the walked entity is the dependent itself or
\* one of its parents, so a dependent nested under another entity of the same
\* name as the walked entity is enqueued
C33_AncestorByIdentity ==
  (last.op = "invalidate" /\ last.step \in Steps) =>
     \A t \in skipped_dependents : t[4] = t[1] \/ t[1] \in StrictAncestors(t[4])

\* invalidate walked the file pkg and enqueued a file of the package pkg
C33_Witness ==
  /\ last.op = "invalidate"
  /\ \E c \in last.calls :
       /\ c[4] \in rebuild[c[3]]
       /\ \E p \in StrictAncestors(c[4]) : p # c[1] /\ name(p) = name(c[1])

\* every segment of the path of the last get_symbol call resolves: the
\* module segments from self, then each content segment from what the
\* segment before it gave
path_resolves ==
  /\ last.files # <<>> \/ last.content # <<>>
  /\ LET m == IF last.files = <<>> THEN last.sym
              ELSE walk_files(get_module_symbol(last.sym, Head(last.files)), Tail(last.files))
     IN /\ m # NoSym
        /\ walk_content(<<m>>, last.content, last.position) # <<>>

\* C34: get_symbol returns an empty list, without error and without
\* modifying the symbol graph, whenever a module segment or a content segment
\* of the path fails to resolve, and when both segment lists are empty
C34_UnresolvedGivesEmpty ==
  last.op = "get_symbol" =>
    /\ ~panicked
    /\ BuiltTree
    /\ ~path_resolves => last.result = <<>>

\* what invalidate is not to touch: the tree, the edges, the evaluations and
\* the module registry
invalidate_frame == <<allocated, parent, symbols, module_symbols, dependencies, dependents, evaluations, modules>>

C36_SubtreeNotEnqueued ==
  last.op = "unload" => \A c \in last.calls : c[4] \notin unl.sub

\* C37: unload(X) on an attached symbol X terminates, also when a container
\* of the subtree holds several children of one name in different sections
\* or directories, and it detaches each symbol it processes exactly once: no
\* symbol is handed to remove_symbol a second time, and when unload has
\* returned every symbol it processed is without parent and in no map
C37_UnloadTerminatesOnce ==
  /\ (upc # "idle") ~> (upc = "idle" /\ unl.done /\ ~panicked)
  /\ [][(upc = "loop" /\ upc' = "removed") => ref_to_unload' \notin unl.detached]_vars
  /\ [](unl.done => \A e \in unl.detached : parent[e] = NoSym /\ ~InAnyMap(e))

\* unload of the namespace has returned: it processed the module and the
\* file of the same name, and the two variables of the same name
C37_Witness ==
  /\ unl.done /\ upc = "idle" /\ ~panicked
  /\ \E a, b \in unl.detached :
       a # b /\ name(a) = name(b) /\ directory(a) # directory(b) /\ ~is_file_content(a)
  /\ \E a, b \in unl.detached :
       a # b /\ name(a) = name(b) /\ section(a) # section(b) /\ is_file_content(a)

\* C38: get_tree and get_symbol are inverse for attached symbols: for every
\* symbol E attached under Root, Root.get_symbol(E.get_tree(), u32::MAX)
\* contains E, and is the list of E alone when E is a File, Package or
\* Namespace
C38_TreeRoundTrip ==
  (last.op = "get_symbol" /\ "of" \in DOMAIN last) =>
    /\ \E i \in DOMAIN last.result : last.result[i] = last.of
    /\ typ(last.of) \in {"FILE", "PACKAGE", "NAMESPACE"} => last.result = <<last.of>>

\* an unload is running on a symbol that had no parent when it was called
UnloadOfParentless ==
  /\ upc # "idle"
  /\ parent[unl.root] = NoSym
  /\ unl.root \notin unl.detached

\* C39: unload(X) on a symbol without parent (Root, or a symbol already
\* unloaded) fails with an error instead of being a no-op, and no rebuild
\* worklist and no entry of the module registry is modified by the call
C39_ParentlessUnloadFails ==
  [][UnloadOfParentless =>
       (rebuild' = rebuild /\ modules' = modules /\ ~unl'.done)]_vars

====
